---- MODULE Spec2Model ----
(***************************************************************************)
(* A model of the Ristretto255 point natives of the Aptos framework        *)
(* (aptos-move/framework/src/natives/cryptography/ristretto255_point.rs):  *)
(* the handle-indexed PointStore, the native entry points that work on it  *)
(* and the charging protocol of the safe multi-scalar-multiplication       *)
(* native.                                                                 *)
(*                                                                         *)
(* The curve arithmetic of curve25519_dalek is an external primitive; the  *)
(* prime-order Ristretto group is modelled by the cyclic group of integers *)
(* modulo GroupOrder, scalars by the integers modulo GroupOrder.           *)
(***************************************************************************)
EXTENDS Integers, Sequences, FiniteSets, TLC

(***************************************************************************)
(* Bounds of the model.                                                    *)
(***************************************************************************)
\* Order of the cyclic group standing for the Ristretto group.
GroupOrder == 3
\* Largest number of points a session's store is let to hold.
MaxPoints == 3
\* Longest vector argument enumerated element by element.
MaxVecLen == 2

Points == 0 .. (GroupOrder - 1)
Scalars == 0 .. (GroupOrder - 1)
\* Handles offered by callers: every valid one, and at least one out of range.
Handles == 0 .. MaxPoints

(***************************************************************************)
(* curve25519_dalek's RistrettoPoint, as the group Z_GroupOrder.           *)
(***************************************************************************)
PointIdentity == 0

RISTRETTO_BASEPOINT == 1

PointAdd(p, q) == (p + q) % GroupOrder

PointNeg(p) == (GroupOrder - p) % GroupOrder

PointSub(p, q) == (p + PointNeg(q)) % GroupOrder

PointMul(p, s) == (p * s) % GroupOrder

\* RistrettoPoint::vartime_double_scalar_mul_basepoint(a, A, b): a * A + b * B.
vartime_double_scalar_mul_basepoint(a, A, b) ==
    PointAdd(PointMul(A, a), PointMul(RISTRETTO_BASEPOINT, b))

\* The length of a compressed point.
COMPRESSED_LEN == 32

\* The length of the input of from_uniform_bytes.
UNIFORM_LEN == 64

\* CompressedRistretto: the point p is encoded by the byte p followed by zero
\* bytes; every other string of COMPRESSED_LEN bytes decodes to no point.
PointCompress(p) == [i \in 1 .. COMPRESSED_LEN |-> IF i = 1 THEN p ELSE 0]

\* CompressedRistretto::decompress: Option<RistrettoPoint>.
PointDecompress(bytes) ==
    IF bytes[1] < GroupOrder /\ \A i \in 2 .. COMPRESSED_LEN : bytes[i] = 0
    THEN [some |-> TRUE, v |-> bytes[1]]
    ELSE [some |-> FALSE, v |-> 0]

RECURSIVE ByteSum(_, _)
ByteSum(bytes, n) == IF n = 0 THEN 0 ELSE bytes[n] + ByteSum(bytes, n - 1)

\* RistrettoPoint::hash_from_bytes::<Sha512> and from_uniform_bytes: maps of
\* byte strings onto the group.
HashFromBytes(bytes) == (ByteSum(bytes, Len(bytes)) + Len(bytes)) % GroupOrder

FromUniformBytes(bytes) == ByteSum(bytes, Len(bytes)) % GroupOrder

(***************************************************************************)
(* u64 and the gas quantities of move_core_types::gas_algebra.  U64_MAX    *)
(* stands for u64::MAX: it is larger than every length, handle and cost    *)
(* the model otherwise reaches.  GasQuantity adds and multiplies with      *)
(* saturation.                                                             *)
(***************************************************************************)
U64_MAX == 2147483647

GasAdd(x, y) == IF x > U64_MAX - y THEN U64_MAX ELSE x + y

GasMul(x, y) == IF x # 0 /\ y > U64_MAX \div x THEN U64_MAX ELSE x * y

NumArgsOne == 1

InternalGasZero == 0

\* The gas parameter tables a session may be set up with.
GasTables ==
    { [point_identity |-> 1, point_add |-> 2, point_sub |-> 3, point_neg |-> 4,
       point_mul |-> 5, basepoint_mul |-> 6, point_parse_arg |-> 2,
       scalar_parse_arg |-> 3, point_decompress |-> 7, point_compress |-> 8,
       point_equals |-> 9, basepoint_double_mul |-> 10,
       point_from_64_uniform_bytes |-> 11, sha512_per_hash |-> 12,
       sha512_per_byte |-> 13],
      [point_identity |-> 11, point_add |-> 7, point_sub |-> 13, point_neg |-> 9,
       point_mul |-> 17, basepoint_mul |-> 19, point_parse_arg |-> 5,
       scalar_parse_arg |-> 1, point_decompress |-> 23, point_compress |-> 3,
       point_equals |-> 2, basepoint_double_mul |-> 29,
       point_from_64_uniform_bytes |-> 31, sha512_per_hash |-> 37,
       sha512_per_byte |-> 4] }

(***************************************************************************)
(* PointStore: points is the Vec<RistrettoPoint>; the handle h names the   *)
(* element at 0-based index h, the sequence element h + 1.  A reference    *)
(* into the vector is modelled by the 0-based index it points to.  A       *)
(* result with ok = FALSE is a panic.                                      *)
(***************************************************************************)
Deref(pts, ref) == pts[ref + 1]

WriteRef(pts, ref, p) == [pts EXCEPT ![ref + 1] = p]

set_point_pushes_at_end(pts, handle, point) ==
    IF handle < Len(pts)
    THEN [ok |-> TRUE, points |-> WriteRef(pts, handle, point)]
    ELSE IF handle = Len(pts)
    THEN [ok |-> TRUE, points |-> Append(pts, point)]
    ELSE [ok |-> FALSE, points |-> pts]

set_point(pts, handle, point) ==
    IF handle < Len(pts)
    THEN [ok |-> TRUE, points |-> WriteRef(pts, handle, point)]
    ELSE [ok |-> FALSE, points |-> pts]

get_point(pts, handle) ==
    IF handle < Len(pts)
    THEN [ok |-> TRUE, v |-> pts[handle + 1]]
    ELSE [ok |-> FALSE, v |-> 0]

get_point_mut(pts, handle) ==
    IF handle < Len(pts)
    THEN [ok |-> TRUE, ref |-> handle]
    ELSE [ok |-> FALSE, ref |-> 0]

\* split_at_mut(mid): the windows [0, mid) and [mid, len); panics if mid > len.
split_at_mut(pts, mid) ==
    IF mid > Len(pts)
    THEN [ok |-> FALSE, left_len |-> 0, right_base |-> 0, right_len |-> 0]
    ELSE [ok |-> TRUE, left_len |-> mid, right_base |-> mid,
          right_len |-> Len(pts) - mid]

\* get_two_muts for a # b: order the handles, split after the lower one, take
\* one element of each window and give the two back in the caller's order.
two_muts_distinct(pts, a, b) ==
    LET sw == a > b
        lo == IF a < b THEN a ELSE b
        hi == IF a < b THEN b ELSE a
        w == split_at_mut(pts, lo + 1)
    IN IF ~w.ok \/ ~(lo < w.left_len) \/ ~(hi - (lo + 1) < w.right_len)
       THEN [ok |-> FALSE, fst |-> 0, snd |-> 0]
       ELSE LET a_ref == lo
                b_ref == w.right_base + (hi - (lo + 1))
            IN IF sw
               THEN [ok |-> TRUE, fst |-> b_ref, snd |-> a_ref]
               ELSE [ok |-> TRUE, fst |-> a_ref, snd |-> b_ref]

get_two_muts_no_swap_back(pts, a, b) ==
    IF a = b THEN [ok |-> FALSE, fst |-> 0, snd |-> 0]
    ELSE LET t == two_muts_distinct(pts, a, b)
         IN IF t.ok /\ a > b
            THEN [ok |-> TRUE, fst |-> t.snd, snd |-> t.fst]
            ELSE t

get_two_muts_alias_on_equal(pts, a, b) ==
    IF a = b
    THEN IF a < Len(pts) THEN [ok |-> TRUE, fst |-> a, snd |-> a]
         ELSE [ok |-> FALSE, fst |-> 0, snd |-> 0]
    ELSE two_muts_distinct(pts, a, b)

get_two_muts(pts, a, b) ==
    IF a = b THEN [ok |-> FALSE, fst |-> 0, snd |-> 0]
    ELSE two_muts_distinct(pts, a, b)

add_point_id_after_push(pts, point) ==
    [points |-> Append(pts, point), id |-> Len(Append(pts, point))]

add_point_interned(pts, point) ==
    IF \E i \in 1 .. Len(pts) : pts[i] = point
    THEN [points |-> pts, id |-> (CHOOSE i \in 1 .. Len(pts) : pts[i] = point) - 1]
    ELSE [points |-> Append(pts, point), id |-> Len(pts)]

add_point(pts, point) ==
    LET id == Len(pts)
    IN [points |-> Append(pts, point), id |-> id]

(***************************************************************************)
(* The outcome of a native call: a NativeResult::ok(cost, values) with the *)
(* store the call leaves behind and the handles add_point minted during    *)
(* the call, or a panic.  A panic unwinds the call; whatever the store     *)
(* held at that moment is what it holds afterwards.                        *)
(***************************************************************************)
NativeOk(pts, cost, ret, new) ==
    [outcome |-> "ok", points |-> pts, cost |-> cost, ret |-> ret,
     minted |-> new, panic_at |-> "none", events |-> <<>>]

NativePanic(pts, where) ==
    [outcome |-> "panic", points |-> pts, cost |-> 0, ret |-> <<>>,
     minted |-> <<>>, panic_at |-> where, events |-> <<>>]

\* The part of a native that runs while it holds a borrow of the store cell
\* (point_data.borrow() or borrow_mut()): the guard is dropped when the
\* function returns and when a panic unwinds it.
Borrowed(kind, r) ==
    [r EXCEPT !.events = <<kind>> \o r.events \o <<"release">>]

\* The borrow flag of the RefCell that holds the store: 0 when it is not
\* borrowed, the number of shared borrows when positive, -1 under an
\* exclusive borrow.  A run is the flag, whether a borrow panicked (already
\* borrowed) and whether a borrow was taken while another was held.
RefCellUnused == [flag |-> 0, panicked |-> FALSE, nested |-> FALSE]

RefCellStep(cell, e) ==
    CASE e = "borrow" ->
           IF cell.flag < 0 THEN [cell EXCEPT !.panicked = TRUE, !.nested = TRUE]
           ELSE [cell EXCEPT !.flag = @ + 1, !.nested = @ \/ cell.flag # 0]
      [] e = "borrow_mut" ->
           IF cell.flag # 0 THEN [cell EXCEPT !.panicked = TRUE, !.nested = TRUE]
           ELSE [cell EXCEPT !.flag = -1]
      [] e = "release" ->
           IF cell.flag = 0 THEN [cell EXCEPT !.panicked = TRUE]
           ELSE IF cell.flag < 0 THEN [cell EXCEPT !.flag = 0]
           ELSE [cell EXCEPT !.flag = @ - 1]
      [] OTHER -> cell

RECURSIVE RefCellRun(_, _, _)
\* The cell after the steps i .. Len(ev) of a call.
RefCellRun(cell, ev, i) ==
    IF i > Len(ev) THEN cell
    ELSE RefCellRun(RefCellStep(cell, ev[i]), ev, i + 1)

\* pop_arg!: VecDeque::pop_back, the last declared argument first.
pop_arg(args) ==
    [v |-> args[Len(args)], rest |-> SubSeq(args, 1, Len(args) - 1)]

native_point_identity_counts_after(gas_params, pts, ty_args, args) ==
    LET cost == GasMul(gas_params.point_identity, NumArgsOne)
        r == add_point(pts, PointIdentity)
    IN IF Len(ty_args) # 0 \/ Len(args) # 0
       THEN [NativePanic(r.points, "assert_eq") EXCEPT
                !.events = <<"borrow_mut", "release">>]
       ELSE Borrowed("borrow_mut", NativeOk(r.points, cost, <<r.id>>, <<r.id>>))

native_point_identity(gas_params, pts, ty_args, args) ==
    IF Len(ty_args) # 0 \/ Len(args) # 0 THEN NativePanic(pts, "assert_eq")
    ELSE Borrowed("borrow_mut",
         LET cost == GasMul(gas_params.point_identity, NumArgsOne)
             r == add_point(pts, PointIdentity)
         IN NativeOk(r.points, cost, <<r.id>>, <<r.id>>))

\* native_point_mul, in_place = false.
point_mul_new(pts, cost, point_handle, scalar) ==
    LET g == get_point(pts, point_handle)
    IN IF ~g.ok THEN NativePanic(pts, "get_point")
       ELSE LET r == add_point(pts, PointMul(g.v, scalar))
            IN NativeOk(r.points, cost, <<r.id>>, <<r.id>>)

point_mul_assign_allocates(pts, cost, point_handle, scalar) ==
    point_mul_new(pts, cost, point_handle, scalar)

\* native_point_mul, in_place = true.
point_mul_assign(pts, cost, point_handle, scalar) ==
    LET m == get_point_mut(pts, point_handle)
    IN IF ~m.ok THEN NativePanic(pts, "get_point_mut")
       ELSE NativeOk(WriteRef(pts, m.ref, PointMul(Deref(pts, m.ref), scalar)),
                     cost, <<point_handle>>, <<>>)

native_point_mul(gas_params, pts, ty_args, args) ==
    IF Len(ty_args) # 0 \/ Len(args) # 3 THEN NativePanic(pts, "assert_eq")
    ELSE Borrowed("borrow_mut",
         LET p1 == pop_arg(args)
             in_place == p1.v
             p2 == pop_arg(p1.rest)
             scalar == p2.v
             p3 == pop_arg(p2.rest)
             point_handle == p3.v
             cost == GasMul(gas_params.point_mul, NumArgsOne)
         IN IF ~in_place
            THEN point_mul_new(pts, cost, point_handle, scalar)
            ELSE point_mul_assign(pts, cost, point_handle, scalar))

\* native_point_neg, in_place = false.
point_neg_new(pts, cost, point_handle) ==
    LET g == get_point(pts, point_handle)
    IN IF ~g.ok THEN NativePanic(pts, "get_point")
       ELSE LET r == add_point(pts, PointNeg(g.v))
            IN NativeOk(r.points, cost, <<r.id>>, <<r.id>>)

\* native_point_neg, in_place = true.
point_neg_assign(pts, cost, point_handle) ==
    LET m == get_point_mut(pts, point_handle)
    IN IF ~m.ok THEN NativePanic(pts, "get_point_mut")
       ELSE LET neg == PointNeg(Deref(pts, m.ref))
                s == set_point(pts, point_handle, neg)
            IN IF ~s.ok THEN NativePanic(pts, "set_point")
               ELSE NativeOk(s.points, cost, <<point_handle>>, <<>>)

native_point_neg(gas_params, pts, ty_args, args) ==
    IF Len(ty_args) # 0 \/ Len(args) # 2 THEN NativePanic(pts, "assert_eq")
    ELSE Borrowed("borrow_mut",
         LET p1 == pop_arg(args)
             in_place == p1.v
             p2 == pop_arg(p1.rest)
             point_handle == p2.v
             cost == GasMul(gas_params.point_neg, NumArgsOne)
         IN IF ~in_place
            THEN point_neg_new(pts, cost, point_handle)
            ELSE point_neg_assign(pts, cost, point_handle))

\* native_point_add, in_place = false.
point_add_new(pts, cost, a_handle, b_handle) ==
    LET a == get_point(pts, a_handle)
        b == get_point(pts, b_handle)
    IN IF ~a.ok \/ ~b.ok THEN NativePanic(pts, "get_point")
       ELSE LET r == add_point(pts, PointAdd(a.v, b.v))
            IN NativeOk(r.points, cost, <<r.id>>, <<r.id>>)

point_add_assign_into_b(debug_assertions, pts, cost, a_handle, b_handle) ==
    IF debug_assertions /\ a_handle = b_handle
    THEN NativePanic(pts, "debug_assert")
    ELSE LET t == get_two_muts(pts, a_handle, b_handle)
         IN IF ~t.ok THEN NativePanic(pts, "get_two_muts")
            ELSE NativeOk(WriteRef(pts, t.snd,
                                   PointAdd(Deref(pts, t.snd), Deref(pts, t.fst))),
                          cost, <<a_handle>>, <<>>)

\* native_point_add, in_place = true.
point_add_assign(debug_assertions, pts, cost, a_handle, b_handle) ==
    IF debug_assertions /\ a_handle = b_handle
    THEN NativePanic(pts, "debug_assert")
    ELSE LET t == get_two_muts(pts, a_handle, b_handle)
         IN IF ~t.ok THEN NativePanic(pts, "get_two_muts")
            ELSE NativeOk(WriteRef(pts, t.fst,
                                   PointAdd(Deref(pts, t.fst), Deref(pts, t.snd))),
                          cost, <<a_handle>>, <<>>)

native_point_add(gas_params, debug_assertions, pts, ty_args, args) ==
    IF Len(ty_args) # 0 \/ Len(args) # 3 THEN NativePanic(pts, "assert_eq")
    ELSE Borrowed("borrow_mut",
         LET p1 == pop_arg(args)
             in_place == p1.v
             p2 == pop_arg(p1.rest)
             b_handle == p2.v
             p3 == pop_arg(p2.rest)
             a_handle == p3.v
             cost == GasMul(gas_params.point_add, NumArgsOne)
         IN IF ~in_place
            THEN point_add_new(pts, cost, a_handle, b_handle)
            ELSE point_add_assign(debug_assertions, pts, cost, a_handle, b_handle))

\* native_point_sub, in_place = false.
point_sub_new(pts, cost, a_handle, b_handle) ==
    LET a == get_point(pts, a_handle)
        b == get_point(pts, b_handle)
    IN IF ~a.ok \/ ~b.ok THEN NativePanic(pts, "get_point")
       ELSE LET r == add_point(pts, PointSub(a.v, b.v))
            IN NativeOk(r.points, cost, <<r.id>>, <<r.id>>)

point_sub_assign_reversed(debug_assertions, pts, cost, a_handle, b_handle) ==
    IF debug_assertions /\ a_handle = b_handle
    THEN NativePanic(pts, "debug_assert")
    ELSE LET t == get_two_muts(pts, a_handle, b_handle)
         IN IF ~t.ok THEN NativePanic(pts, "get_two_muts")
            ELSE NativeOk(WriteRef(pts, t.fst,
                                   PointSub(Deref(pts, t.snd), Deref(pts, t.fst))),
                          cost, <<a_handle>>, <<>>)

point_sub_assign_aliasing(debug_assertions, pts, cost, a_handle, b_handle) ==
    IF a_handle = b_handle /\ a_handle < Len(pts)
    THEN NativeOk(WriteRef(pts, a_handle, PointIdentity), cost, <<a_handle>>, <<>>)
    ELSE LET t == get_two_muts(pts, a_handle, b_handle)
         IN IF ~t.ok THEN NativePanic(pts, "get_two_muts")
            ELSE NativeOk(WriteRef(pts, t.fst,
                                   PointSub(Deref(pts, t.fst), Deref(pts, t.snd))),
                          cost, <<a_handle>>, <<>>)

\* native_point_sub, in_place = true.
point_sub_assign(debug_assertions, pts, cost, a_handle, b_handle) ==
    IF debug_assertions /\ a_handle = b_handle
    THEN NativePanic(pts, "debug_assert")
    ELSE LET t == get_two_muts(pts, a_handle, b_handle)
         IN IF ~t.ok THEN NativePanic(pts, "get_two_muts")
            ELSE NativeOk(WriteRef(pts, t.fst,
                                   PointSub(Deref(pts, t.fst), Deref(pts, t.snd))),
                          cost, <<a_handle>>, <<>>)

native_point_sub(gas_params, debug_assertions, pts, ty_args, args) ==
    IF Len(ty_args) # 0 \/ Len(args) # 3 THEN NativePanic(pts, "assert_eq")
    ELSE Borrowed("borrow_mut",
         LET p1 == pop_arg(args)
             in_place == p1.v
             p2 == pop_arg(p1.rest)
             b_handle == p2.v
             p3 == pop_arg(p2.rest)
             a_handle == p3.v
             cost == GasMul(gas_params.point_sub, NumArgsOne)
         IN IF ~in_place
            THEN point_sub_new(pts, cost, a_handle, b_handle)
            ELSE point_sub_assign(debug_assertions, pts, cost, a_handle, b_handle))

native_basepoint_mul(gas_params, pts, ty_args, args) ==
    IF Len(ty_args) # 0 \/ Len(args) # 1 THEN NativePanic(pts, "assert_eq")
    ELSE Borrowed("borrow_mut",
         LET p1 == pop_arg(args)
             a == p1.v
             cost == GasMul(gas_params.basepoint_mul, NumArgsOne)
             result == PointMul(RISTRETTO_BASEPOINT, a)
             r == add_point(pts, result)
         IN NativeOk(r.points, cost, <<r.id>>, <<r.id>>))

\* A PartialVMError returned by a native.
NativeErr(pts) ==
    [outcome |-> "error", points |-> pts, cost |-> 0, ret |-> <<>>,
     minted |-> <<>>, panic_at |-> "none", events |-> <<>>]

\* Some(CompressedRistretto) if 32 bytes were given.
compressed_point_from_bytes(bytes) ==
    IF Len(bytes) = COMPRESSED_LEN
    THEN [some |-> TRUE, v |-> bytes]
    ELSE [some |-> FALSE, v |-> <<>>]

decompress_maybe_non_canonical_point_bytes_charges_decoded(gas_params, cumulative_cost, bytes) ==
    LET compressed == compressed_point_from_bytes(bytes)
        point == IF compressed.some THEN PointDecompress(compressed.v)
                 ELSE [some |-> FALSE, v |-> 0]
    IN [point |-> point,
        cost |-> IF point.some
                 THEN GasAdd(cumulative_cost,
                             GasMul(gas_params.point_decompress, NumArgsOne))
                 ELSE cumulative_cost]

\* The point and the cumulative cost after the call.
decompress_maybe_non_canonical_point_bytes(gas_params, cumulative_cost, bytes) ==
    LET compressed == compressed_point_from_bytes(bytes)
    IN IF ~compressed.some
       THEN [point |-> [some |-> FALSE, v |-> 0], cost |-> cumulative_cost]
       ELSE [point |-> PointDecompress(compressed.v),
             cost |-> GasAdd(cumulative_cost,
                             GasMul(gas_params.point_decompress, NumArgsOne))]

native_point_is_canonical(gas_params, pts, ty_args, args) ==
    IF Len(ty_args) # 0 \/ Len(args) # 1 THEN NativePanic(pts, "assert_eq")
    ELSE LET p1 == pop_arg(args)
             bytes == p1.v
             d == decompress_maybe_non_canonical_point_bytes(
                      gas_params, InternalGasZero, bytes)
         IN NativeOk(pts, d.cost, <<d.point.some>>, <<>>)

native_point_decompress_aborts(gas_params, pts, ty_args, args) ==
    IF Len(ty_args) # 0 \/ Len(args) # 1 THEN NativePanic(pts, "assert_eq")
    ELSE LET d == decompress_maybe_non_canonical_point_bytes(
                      gas_params, InternalGasZero, pop_arg(args).v)
         IN IF ~d.point.some THEN NativeErr(pts)
            ELSE LET r == add_point(pts, d.point.v)
                 IN NativeOk(r.points, d.cost, <<r.id, TRUE>>, <<r.id>>)

native_point_decompress_stores_identity(gas_params, pts, ty_args, args) ==
    IF Len(ty_args) # 0 \/ Len(args) # 1 THEN NativePanic(pts, "assert_eq")
    ELSE LET d == decompress_maybe_non_canonical_point_bytes(
                      gas_params, InternalGasZero, pop_arg(args).v)
         IN IF ~d.point.some
            THEN NativeOk(pts, d.cost, <<U64_MAX, FALSE>>, <<>>)
            ELSE LET r == add_point(pts, PointIdentity)
                 IN NativeOk(r.points, d.cost, <<r.id, TRUE>>, <<r.id>>)

native_point_decompress_next_handle_sentinel(gas_params, pts, ty_args, args) ==
    IF Len(ty_args) # 0 \/ Len(args) # 1 THEN NativePanic(pts, "assert_eq")
    ELSE LET d == decompress_maybe_non_canonical_point_bytes(
                      gas_params, InternalGasZero, pop_arg(args).v)
         IN IF ~d.point.some
            THEN NativeOk(pts, d.cost, <<IF pts = <<>> THEN 0 ELSE Len(pts) - 1, FALSE>>,
                          <<>>)
            ELSE LET r == add_point(pts, d.point.v)
                 IN NativeOk(r.points, d.cost, <<r.id, TRUE>>, <<r.id>>)

native_point_decompress(gas_params, pts, ty_args, args) ==
    IF Len(ty_args) # 0 \/ Len(args) # 1 THEN NativePanic(pts, "assert_eq")
    ELSE Borrowed("borrow_mut",
         LET p1 == pop_arg(args)
             bytes == p1.v
             d == decompress_maybe_non_canonical_point_bytes(
                      gas_params, InternalGasZero, bytes)
         IN IF ~d.point.some
            THEN NativeOk(pts, d.cost, <<U64_MAX, FALSE>>, <<>>)
            ELSE LET r == add_point(pts, d.point.v)
                 IN NativeOk(r.points, d.cost, <<r.id, TRUE>>, <<r.id>>))

native_point_compress_allocates(gas_params, pts, ty_args, args) ==
    IF Len(ty_args) # 0 \/ Len(args) # 1 THEN NativePanic(pts, "assert_eq")
    ELSE LET point == get_point(pts, pop_arg(args).v)
         IN IF ~point.ok THEN NativePanic(pts, "get_point")
            ELSE NativeOk(add_point(pts, point.v).points,
                          GasMul(gas_params.point_compress, NumArgsOne),
                          <<PointCompress(point.v)>>, <<>>)

native_point_compress(gas_params, pts, ty_args, args) ==
    IF Len(ty_args) # 0 \/ Len(args) # 1 THEN NativePanic(pts, "assert_eq")
    ELSE Borrowed("borrow",
         LET p1 == pop_arg(args)
             handle == p1.v
             cost == GasMul(gas_params.point_compress, NumArgsOne)
             point == get_point(pts, handle)
         IN IF ~point.ok THEN NativePanic(pts, "get_point")
            ELSE NativeOk(pts, cost, <<PointCompress(point.v)>>, <<>>))

native_point_equals(gas_params, pts, ty_args, args) ==
    IF Len(ty_args) # 0 \/ Len(args) # 2 THEN NativePanic(pts, "assert_eq")
    ELSE Borrowed("borrow_mut",
         LET p1 == pop_arg(args)
             b_handle == p1.v
             p2 == pop_arg(p1.rest)
             a_handle == p2.v
             cost == GasMul(gas_params.point_equals, NumArgsOne)
             a == get_point(pts, a_handle)
             b == get_point(pts, b_handle)
         IN IF ~a.ok \/ ~b.ok THEN NativePanic(pts, "get_point")
            ELSE NativeOk(pts, cost, <<a.v = b.v>>, <<>>))

native_basepoint_double_mul_pops_in_declared_order(gas_params, pts, ty_args, args) ==
    IF Len(ty_args) # 0 \/ Len(args) # 3 THEN NativePanic(pts, "assert_eq")
    ELSE LET A_ref == get_point(pts, args[2])
         IN IF ~A_ref.ok THEN NativePanic(pts, "get_point")
            ELSE LET r == add_point(pts, vartime_double_scalar_mul_basepoint(
                                             args[3], A_ref.v, args[1]))
                 IN NativeOk(r.points,
                             GasMul(gas_params.basepoint_double_mul, NumArgsOne),
                             <<r.id>>, <<r.id>>)

native_basepoint_double_mul(gas_params, pts, ty_args, args) ==
    IF Len(ty_args) # 0 \/ Len(args) # 3 THEN NativePanic(pts, "assert_eq")
    ELSE Borrowed("borrow_mut",
         LET p1 == pop_arg(args)
             b == p1.v
             p2 == pop_arg(p1.rest)
             A_handle == p2.v
             p3 == pop_arg(p2.rest)
             a == p3.v
             cost == GasMul(gas_params.basepoint_double_mul, NumArgsOne)
             A_ref == get_point(pts, A_handle)
         IN IF ~A_ref.ok THEN NativePanic(pts, "get_point")
            ELSE LET result == vartime_double_scalar_mul_basepoint(a, A_ref.v, b)
                     r == add_point(pts, result)
                 IN NativeOk(r.points, cost, <<r.id>>, <<r.id>>))

native_new_point_from_sha512_flat_cost(gas_params, pts, ty_args, args) ==
    IF Len(ty_args) # 0 \/ Len(args) # 1 THEN NativePanic(pts, "assert_eq")
    ELSE LET r == add_point(pts, HashFromBytes(pop_arg(args).v))
         IN NativeOk(r.points,
                     GasAdd(GasMul(gas_params.point_from_64_uniform_bytes, NumArgsOne),
                            GasMul(gas_params.sha512_per_hash, NumArgsOne)),
                     <<r.id>>, <<r.id>>)

native_new_point_from_sha512(gas_params, pts, ty_args, args) ==
    IF Len(ty_args) # 0 \/ Len(args) # 1 THEN NativePanic(pts, "assert_eq")
    ELSE Borrowed("borrow_mut",
         LET p1 == pop_arg(args)
             bytes == p1.v
             cost == GasAdd(GasAdd(
                        GasMul(gas_params.point_from_64_uniform_bytes, NumArgsOne),
                        GasMul(gas_params.sha512_per_hash, NumArgsOne)),
                        GasMul(gas_params.sha512_per_byte, Len(bytes)))
             r == add_point(pts, HashFromBytes(bytes))
         IN NativeOk(r.points, cost, <<r.id>>, <<r.id>>))

\* pop_64_byte_slice: the bytes popped, or an error unless there are 64.
pop_64_byte_slice(args) ==
    LET p == pop_arg(args)
    IN [ok |-> Len(p.v) = UNIFORM_LEN, v |-> p.v, rest |-> p.rest]

native_new_point_from_64_uniform_bytes(gas_params, pts, ty_args, args) ==
    IF Len(ty_args) # 0 \/ Len(args) # 1 THEN NativePanic(pts, "assert_eq")
    ELSE Borrowed("borrow_mut",
         LET slice == pop_64_byte_slice(args)
         IN IF ~slice.ok THEN NativeErr(pts)
            ELSE LET cost == GasMul(gas_params.point_from_64_uniform_bytes, NumArgsOne)
                     r == add_point(pts, FromUniformBytes(slice.v))
                 IN NativeOk(r.points, cost, <<r.id>>, <<r.id>>))

(***************************************************************************)
(* log2_floor and the safe multi-scalar multiplication native.             *)
(***************************************************************************)
USIZE_BITS == 64

RECURSIVE BitLength(_)
\* The number of significant bits of n: USIZE_BITS minus its leading zeros.
BitLength(n) == IF n = 0 THEN 0 ELSE 1 + BitLength(n \div 2)

leading_zeros(n) == USIZE_BITS - BitLength(n)

\* Option<usize>: some = FALSE is None.
log2_floor(n) ==
    IF n = 0 THEN [some |-> FALSE, v |-> 0]
    ELSE [some |-> TRUE, v |-> (USIZE_BITS - leading_zeros(n)) - 1]

\* A usize as its USIZE_BITS binary digits, digit i of weight 2^i: the values
\* above the integers of the model, usize::MAX among them, are written so.
UsizeDigits == 0 .. (USIZE_BITS - 1)

\* The digits of an integer of the model (below 2^31).
UsizeOf(n) ==
    [i \in UsizeDigits |-> IF i >= 31 THEN 0 ELSE (n \div (2 ^ i)) % 2]

USIZE_MIN == [i \in UsizeDigits |-> 0]

USIZE_MAX == [i \in UsizeDigits |-> 1]

\* usize::leading_zeros: the number of zero digits above the highest one.
usize_leading_zeros(n) ==
    IF n = USIZE_MIN THEN USIZE_BITS
    ELSE LET top == CHOOSE i \in UsizeDigits :
                        n[i] = 1 /\ \A j \in UsizeDigits : j > i => n[j] = 0
         IN (USIZE_BITS - 1) - top

log2_floor_usize_bit_length(n) ==
    IF n = USIZE_MIN THEN [some |-> FALSE, v |-> 0]
    ELSE [some |-> TRUE, v |-> USIZE_BITS - usize_leading_zeros(n)]

\* log2_floor on a usize given by its digits.
log2_floor_usize(n) ==
    IF n = USIZE_MIN THEN [some |-> FALSE, v |-> 0]
    ELSE [some |-> TRUE, v |-> (USIZE_BITS - usize_leading_zeros(n)) - 1]

\* SafeNativeContext::charge: adds the amount to the gas used by the call and
\* fails once that exceeds the budget the call was given.
charge(gas_budget, gas_used, amount) ==
    LET used == GasAdd(gas_used, amount)
    IN [ok |-> used <= gas_budget, gas_used |-> used]

\* The outcomes of a safe native: Ok(values), Err(error) or a panic; cost is
\* the gas the call charged to its context, events the steps it took in order.
SafeOk(pts, used, ret, new, ev) ==
    [outcome |-> "ok", points |-> pts, cost |-> used, ret |-> ret,
     minted |-> new, panic_at |-> "none", events |-> ev]

SafeErr(pts, used, ev) ==
    [outcome |-> "error", points |-> pts, cost |-> used, ret |-> <<>>,
     minted |-> <<>>, panic_at |-> "none", events |-> ev]

SafePanic(pts, used, where, ev) ==
    [outcome |-> "panic", points |-> pts, cost |-> used, ret |-> <<>>,
     minted |-> <<>>, panic_at |-> where, events |-> ev]

\* The loop "for i in 0..num": the first index at which borrow_elem fails (the
\* vector is shorter than num) or get_point panics (the handle is out of range).
parse_points(pts, points_ref, num) ==
    LET bad == { i \in 0 .. (num - 1) :
                   \/ i >= Len(points_ref)
                   \/ ~get_point(pts, points_ref[i + 1]).ok }
    IN IF bad = {}
       THEN [status |-> "ok",
             points |-> [i \in 1 .. num |-> get_point(pts, points_ref[i]).v]]
       ELSE LET i == CHOOSE j \in bad : \A k \in bad : j <= k
            IN [status |-> IF i >= Len(points_ref) THEN "error" ELSE "panic",
                points |-> <<>>]

\* The loop over the scalars vector: num is its length, so borrow_elem succeeds.
parse_scalars(scalars_ref, num) == [i \in 1 .. num |-> scalars_ref[i]]

RECURSIVE MsmSum(_, _, _, _)
\* The sum of scalars[i] * points[i] for lo <= i <= hi, halving the range.
MsmSum(scalars, pts, lo, hi) ==
    IF lo > hi THEN PointIdentity
    ELSE IF lo = hi THEN PointMul(pts[lo], scalars[lo])
    ELSE LET mid == (lo + hi) \div 2
         IN PointAdd(MsmSum(scalars, pts, lo, mid), MsmSum(scalars, pts, mid + 1, hi))

vartime_multiscalar_mul(scalars, pts) == MsmSum(scalars, pts, 1, Len(scalars))

msm_cost_ceiling(gas_params, num) ==
    LET log == log2_floor(num + 1)
    IN IF ~log.some THEN [status |-> "unwrap", amount |-> 0]
       ELSE IF log.v = 0 THEN [status |-> "divide_by_zero", amount |-> 0]
       ELSE [status |-> "ok",
             amount |->
                GasAdd(GasAdd(GasMul(gas_params.point_parse_arg, num),
                              GasMul(gas_params.scalar_parse_arg, num)),
                       GasMul(gas_params.point_mul, (num + log.v - 1) \div log.v))]

msm_cost_log_of_num(gas_params, num) ==
    LET log == log2_floor(num)
    IN IF ~log.some THEN [status |-> "unwrap", amount |-> 0]
       ELSE IF log.v = 0 THEN [status |-> "divide_by_zero", amount |-> 0]
       ELSE [status |-> "ok",
             amount |->
                GasAdd(GasAdd(GasMul(gas_params.point_parse_arg, num),
                              GasMul(gas_params.scalar_parse_arg, num)),
                       GasMul(gas_params.point_mul, num \div log.v))]

msm_cost_zero_quotient(gas_params, num) ==
    LET log == log2_floor(num + 1)
        quotient == IF log.v = 0 THEN 0 ELSE num \div log.v
    IN [status |-> "ok",
        amount |-> GasAdd(GasAdd(GasMul(gas_params.point_parse_arg, num),
                                 GasMul(gas_params.scalar_parse_arg, num)),
                          GasMul(gas_params.point_mul, quotient))]

\* The argument of context.charge: unwrap of None and the division by zero
\* panic while it is evaluated.
msm_cost(gas_params, num) ==
    LET log == log2_floor(num + 1)
    IN IF ~log.some THEN [status |-> "unwrap", amount |-> 0]
       ELSE IF log.v = 0 THEN [status |-> "divide_by_zero", amount |-> 0]
       ELSE [status |-> "ok",
             amount |->
                GasAdd(GasAdd(GasMul(gas_params.point_parse_arg, num),
                              GasMul(gas_params.scalar_parse_arg, num)),
                       GasMul(gas_params.point_mul, num \div log.v))]

msm_work_keeps_shared_borrow(pts, used, scalars_ref, points_ref, num, ev) ==
    LET scalars == parse_scalars(scalars_ref, num)
        parsed == parse_points(pts, points_ref, num)
        ev_parse == ev \o <<"parse_scalars", "borrow", "parse_points">>
    IN IF parsed.status = "error"
       THEN SafeErr(pts, used, ev_parse \o <<"release">>)
       ELSE IF parsed.status = "panic"
       THEN SafePanic(pts, used, "get_point", ev_parse \o <<"release">>)
       ELSE LET r == add_point(pts, vartime_multiscalar_mul(scalars, parsed.points))
            IN SafeOk(r.points, used, <<r.id>>, <<r.id>>,
                      ev_parse \o <<"multiply", "borrow_mut", "add_point",
                                    "release", "release">>)

\* What follows the charge: parse the scalars, borrow the store and parse the
\* points, multiply, release, borrow the store mutably and add the result.
msm_work(pts, used, scalars_ref, points_ref, num, ev) ==
    LET scalars == parse_scalars(scalars_ref, num)
        parsed == parse_points(pts, points_ref, num)
        ev_parse == ev \o <<"parse_scalars", "borrow", "parse_points">>
    IN IF parsed.status = "error"
       THEN SafeErr(pts, used, ev_parse \o <<"release">>)
       ELSE IF parsed.status = "panic"
       THEN SafePanic(pts, used, "get_point", ev_parse \o <<"release">>)
       ELSE LET result == vartime_multiscalar_mul(scalars, parsed.points)
                r == add_point(pts, result)
            IN SafeOk(r.points, used, <<r.id>>, <<r.id>>,
                      ev_parse \o <<"multiply", "release", "borrow_mut",
                                    "add_point", "release">>)

safe_native_multi_scalar_mul_charge_after(gas_params, gas_budget, pts, ty_args, args) ==
    IF Len(ty_args) # 2 \/ Len(args) # 2
    THEN SafeErr(pts, InternalGasZero, <<"arity">>)
    ELSE LET scalars_ref == args[2]
             points_ref == args[1]
             num == Len(scalars_ref)
             w == msm_work(pts, InternalGasZero, scalars_ref, points_ref, num,
                           <<"arity", "pop", "len">>)
             cost == msm_cost(gas_params, num)
         IN IF w.outcome # "ok" THEN w
            ELSE IF cost.status # "ok"
            THEN SafePanic(w.points, InternalGasZero, cost.status, w.events)
            ELSE LET c == charge(gas_budget, InternalGasZero, cost.amount)
                 IN IF ~c.ok THEN SafeErr(w.points, c.gas_used, w.events \o <<"charge">>)
                    ELSE SafeOk(w.points, c.gas_used, w.ret, w.minted,
                                w.events \o <<"charge">>)

safe_native_multi_scalar_mul_ignores_charge(gas_params, gas_budget, pts, ty_args, args) ==
    IF Len(ty_args) # 2 \/ Len(args) # 2
    THEN SafeErr(pts, InternalGasZero, <<"arity">>)
    ELSE LET scalars_ref == args[2]
             points_ref == args[1]
             num == Len(scalars_ref)
             ev_len == <<"arity", "pop", "len">>
             cost == msm_cost(gas_params, num)
         IN IF cost.status # "ok"
            THEN SafePanic(pts, InternalGasZero, cost.status, ev_len)
            ELSE msm_work(pts, charge(gas_budget, InternalGasZero, cost.amount).gas_used,
                          scalars_ref, points_ref, num, ev_len \o <<"charge">>)

\* ty_args and args are in declaration order: <point type, scalar type> and
\* <points vector, scalars vector>.
safe_native_multi_scalar_mul_no_floating_point(gas_params, gas_budget, pts, ty_args, args) ==
    IF Len(ty_args) # 2 \/ Len(args) # 2
    THEN SafeErr(pts, InternalGasZero, <<"arity">>)
    ELSE LET t1 == pop_arg(ty_args)
             scalar_type == t1.v
             t2 == pop_arg(t1.rest)
             point_type == t2.v
             a1 == pop_arg(args)
             scalars_ref == a1.v
             a2 == pop_arg(a1.rest)
             points_ref == a2.v
             num == Len(scalars_ref)
             ev_len == <<"arity", "pop", "len">>
             cost == msm_cost(gas_params, num)
         IN IF cost.status # "ok"
            THEN SafePanic(pts, InternalGasZero, cost.status, ev_len)
            ELSE LET c == charge(gas_budget, InternalGasZero, cost.amount)
                     ev_charge == ev_len \o <<"charge">>
                 IN IF ~c.ok THEN SafeErr(pts, c.gas_used, ev_charge)
                    ELSE msm_work(pts, c.gas_used, scalars_ref, points_ref, num,
                                  ev_charge)

(***************************************************************************)
(* The retired multi-scalar multiplication native, whose cost is computed  *)
(* in floating point.                                                      *)
(***************************************************************************)
RECURSIVE LeastExponent(_, _)
\* The least m >= from with num ^ m >= 2 ^ num, for num >= 2: the ceiling of
\* num / log2(num).
LeastExponent(num, from) ==
    IF num ^ from >= 2 ^ num THEN from ELSE LeastExponent(num, from + 1)

\* f64::log2(num as f64) is 0.0, the divisor of the cost, exactly for num = 1.
f64_log2_is_zero(num) == num = 1

\* (num as f64 / f64::log2(num as f64)).ceil() as u64.  For num = 0 the
\* quotient is 0 / -inf = -0; for num = 1 it is 1 / 0 = +inf, which the cast
\* saturates to u64::MAX.
float_ratio_ceil(num) ==
    IF num = 0 THEN 0
    ELSE IF f64_log2_is_zero(num) THEN U64_MAX
    ELSE LeastExponent(num, 1)

native_multi_scalar_mul(gas_params, pts, ty_args, args) ==
    IF Len(ty_args) # 2 \/ Len(args) # 2 THEN NativePanic(pts, "assert_eq")
    ELSE Borrowed("borrow_mut",
         LET t1 == pop_arg(ty_args)
             scalar_type == t1.v
             t2 == pop_arg(t1.rest)
             point_type == t2.v
             a1 == pop_arg(args)
             scalars_ref == a1.v
             a2 == pop_arg(a1.rest)
             points_ref == a2.v
             num == Len(scalars_ref)
             scalars == parse_scalars(scalars_ref, num)
             parsed == parse_points(pts, points_ref, num)
         IN IF parsed.status = "error" THEN NativeErr(pts)
            ELSE IF parsed.status = "panic" THEN NativePanic(pts, "get_point")
            ELSE LET result == vartime_multiscalar_mul(scalars, parsed.points)
                     cost == GasAdd(GasAdd(GasMul(gas_params.scalar_parse_arg, num),
                                           GasMul(gas_params.point_parse_arg, num)),
                                    GasMul(gas_params.point_mul, float_ratio_ceil(num)))
                     r == add_point(pts, result)
                 IN NativeOk(r.points, cost, <<r.id>>, <<r.id>>))

(***************************************************************************)
(* The abstract gas algebra (aptos-gas/src/abstract_algebra.rs).  A        *)
(* formula is a tree: a gas parameter (GetGasParam<P>), a literal quantity *)
(* with its unit, or an AbstractGasAdd / AbstractGasMul of two formulas.   *)
(* A GasQuantity<U> is a record of its value and its unit U.               *)
(***************************************************************************)
MaxOps == 2

MaxLiteral == 2

MaxSliceLen == 3

InternalGasUnit == "InternalGasUnit"

Arg == "Arg"

\* UnitDiv<InternalGasUnit, Arg>, the unit of InternalGasPerArg.
InternalGasPerArg == "UnitDiv<InternalGasUnit, Arg>"

NoUnit == "none"

GasQuantity(val, unit) == [val |-> val, unit |-> unit]

\* GasQuantity<U> + GasQuantity<U>.
QuantityAdd(x, y) == GasQuantity(GasAdd(x.val, y.val), x.unit)

\* The unit of a product: GasQuantity<UnitDiv<U1, U2>> * GasQuantity<U2> and
\* GasQuantity<U2> * GasQuantity<UnitDiv<U1, U2>> are GasQuantity<U1>; no
\* other product of the three units is defined.
UnitMul(ul, ur) ==
    IF (ul = InternalGasPerArg /\ ur = Arg) \/ (ul = Arg /\ ur = InternalGasPerArg)
    THEN InternalGasUnit
    ELSE NoUnit

QuantityMul(x, y) == GasQuantity(GasMul(x.val, y.val), UnitMul(x.unit, y.unit))

\* gas_param!(P)
GetGasParam(P) == [kind |-> "gas_param", p |-> P]

Literal(val, unit) == [kind |-> "quantity", val |-> val, unit |-> unit]

AbstractGasAdd(left, right) == [kind |-> "add", left |-> left, right |-> right]

AbstractGasMul(left, right) == [kind |-> "mul", left |-> left, right |-> right]

RECURSIVE UnitOf(_)
\* AbstractGasFormula::Unit; NoUnit for a tree the trait bounds reject.
UnitOf(f) ==
    CASE f.kind = "gas_param" ->
            IF f.p = "SUM_BASE" THEN InternalGasUnit ELSE InternalGasPerArg
      [] f.kind = "quantity" -> f.unit
      [] f.kind = "add" ->
            IF UnitOf(f.left) = UnitOf(f.right) THEN UnitOf(f.left) ELSE NoUnit
      [] f.kind = "mul" ->
            IF UnitOf(f.left) = NoUnit \/ UnitOf(f.right) = NoUnit THEN NoUnit
            ELSE UnitMul(UnitOf(f.left), UnitOf(f.right))

\* GetGasParam<SUM_BASE>::materialize and GetGasParam<SUM_PER_ELEMENT>::materialize.
materialize_gas_param(P, sum) ==
    IF P = "SUM_BASE"
    THEN GasQuantity(sum.base, InternalGasUnit)
    ELSE GasQuantity(sum.per_element, InternalGasPerArg)

\* GasQuantity<U>::materialize: *self.
materialize_quantity(val, unit) == GasQuantity(val, unit)

\* AbstractGasAdd::materialize, given what its two sides materialize to.
materialize_add(left, right) == QuantityAdd(left, right)

materialize_mul_adds(left, right) ==
    GasQuantity(GasAdd(left.val, right.val), UnitMul(left.unit, right.unit))

\* AbstractGasMul::materialize, given what its two sides materialize to.
materialize_mul(left, right) == QuantityMul(left, right)

RECURSIVE materialize(_, _)
materialize(f, sum) ==
    CASE f.kind = "gas_param" -> materialize_gas_param(f.p, sum)
      [] f.kind = "quantity" -> materialize_quantity(f.val, f.unit)
      [] f.kind = "add" ->
            materialize_add(materialize(f.left, sum), materialize(f.right, sum))
      [] f.kind = "mul" ->
            materialize_mul(materialize(f.left, sum), materialize(f.right, sum))

\* The calls a visitor receives: add(), mul(), gas_param::<P>(), quantity(q).
Callback(cb, P, val, unit) == [cb |-> cb, p |-> P, val |-> val, unit |-> unit]

OnAdd == Callback("add", "", 0, NoUnit)

OnMul == Callback("mul", "", 0, NoUnit)

OnGasParam(P) == Callback("gas_param", P, 0, NoUnit)

OnQuantity(val, unit) == Callback("quantity", "", val, unit)

visit_add_own_first(left, right) == <<OnAdd>> \o left \o right

\* AbstractGasAdd::visit, given the calls its two sides make.
visit_add(left, right) == left \o right \o <<OnAdd>>

visit_mul_calls_add(left, right) == left \o right \o <<OnAdd>>

\* AbstractGasMul::visit, given the calls its two sides make.
visit_mul(left, right) == left \o right \o <<OnMul>>

RECURSIVE visit(_)
\* The calls visit makes on the visitor, in order.
visit(f) ==
    CASE f.kind = "gas_param" -> <<OnGasParam(f.p)>>
      [] f.kind = "quantity" -> <<OnQuantity(f.val, f.unit)>>
      [] f.kind = "add" -> visit_add(visit(f.left), visit(f.right))
      [] f.kind = "mul" -> visit_mul(visit(f.left), visit(f.right))

native_sum_formula_flat(len) ==
    AbstractGasAdd(GetGasParam("SUM_BASE"), GetGasParam("SUM_PER_ELEMENT"))

\* The formula native_sum charges for a slice of len elements.
native_sum_formula(len) ==
    AbstractGasAdd(GetGasParam("SUM_BASE"),
                   AbstractGasMul(GetGasParam("SUM_PER_ELEMENT"), Literal(len, Arg)))

RECURSIVE IterSum(_, _)
\* v.iter().sum() over the first n elements; the sums explored are far below
\* u64::MAX.
IterSum(v, n) == IF n = 0 THEN 0 ELSE IterSum(v, n - 1) + v[n]

\* The formulas charged: the leaves are the two parameters and the literals
\* 0 .. MaxLiteral of the units InternalGasUnit and Arg; a formula has at most
\* MaxOps AbstractGasAdd and AbstractGasMul nodes and a unit.
FormulaLeaves ==
    { GetGasParam(P) : P \in {"SUM_BASE", "SUM_PER_ELEMENT"} }
    \cup { Literal(v, u) : v \in 0 .. MaxLiteral, u \in {InternalGasUnit, Arg} }

RECURSIVE FormulasOfOps(_)
FormulasOfOps(n) ==
    IF n = 0 THEN FormulaLeaves
    ELSE UNION { { g \in { AbstractGasAdd(l, r) : l \in FormulasOfOps(i),
                                                   r \in FormulasOfOps(n - 1 - i) }
                         \cup { AbstractGasMul(l, r) : l \in FormulasOfOps(i),
                                                       r \in FormulasOfOps(n - 1 - i) } :
                     UnitOf(g) # NoUnit } : i \in 0 .. (n - 1) }

Formulas == UNION { FormulasOfOps(n) : n \in 0 .. MaxOps }

\* The tables of SumGasParameters a core is built with.
SumGasTables ==
    { [base |-> 10, per_element |-> 1],
      [base |-> 0, per_element |-> 3],
      [base |-> U64_MAX, per_element |-> 2] }

Slices == { [i \in 1 .. k |-> i] : k \in 0 .. MaxSliceLen }

(***************************************************************************)
(* The state of one session.                                               *)
(*   points            PointStore.points of the session's context          *)
(*   last              the most recent call: its arguments, the store      *)
(*                     before it (pre) and its outcome                     *)
(*   minted            the handles add_point returned so far, in order     *)
(*   gas_params        the session's gas parameter table                   *)
(*   debug_assertions  whether the build checks debug_assert!              *)
(*   passed            the points given to add_point, in order, for as     *)
(*                     long as the store has only been added to; empty     *)
(*                     from the first write on                             *)
(*   written           whether an element was written through set_point or *)
(*                     through a mutable reference                         *)
(*   core_gas_params   ConcreteGasCore.gas_params.sum of the gas algebra    *)
(*   gas_call          the most recent charge made through a GasCore        *)
(***************************************************************************)
VARIABLES points, last, minted, gas_params, debug_assertions, passed, written,
          core_gas_params, gas_call,
          test, pc, cycle, part, modified_failpoints, failpoints,
          fail_points_to_set, to_reset, calls

vars ==
    <<points, last, minted, gas_params, debug_assertions, passed, written,
      core_gas_params, gas_call,
      test, pc, cycle, part, modified_failpoints, failpoints,
      fail_points_to_set, to_reset, calls>>

\* The state of a run of run_fail_point_test (smoke-test/src/consensus.rs).
\*   test                 the test that called run_fail_point_test
\*   pc                   where the test is
\*   cycle, part          i and p of the two loops
\*   modified_failpoints  the set of (validator index, name) the test keeps
\*   failpoints           the failpoint registry of each validator's process
\*   fail_points_to_set   what is left of the vector the closure returned
\*   to_reset             what is left of the set a reset loop iterates over
\*   calls                the set_failpoint requests made in this part
failpoint_vars ==
    <<test, pc, cycle, part, modified_failpoints, failpoints, fail_points_to_set,
      to_reset, calls>>

\* No test is running.
NoTest ==
    /\ test = "none"
    /\ pc = "none"
    /\ cycle = 0
    /\ part = 0
    /\ modified_failpoints = {}
    /\ failpoints = <<>>
    /\ fail_points_to_set = <<>>
    /\ to_reset = {}
    /\ calls = <<>>

\* The part of the state the gas algebra works on, and the part the point
\* natives work on.
algebra_vars == <<core_gas_params, gas_call>>

point_vars ==
    <<points, last, minted, gas_params, debug_assertions, passed, written>>

NoGasCall ==
    [core |-> "none", op |-> "none", formula |-> Literal(0, InternalGasUnit),
     amount |-> GasQuantity(0, NoUnit), callbacks |-> <<>>, slice |-> <<>>,
     ret |-> 0]

\* No GasCore is in use.
AlgebraIdle ==
    /\ core_gas_params = CHOOSE t \in SumGasTables : t.base = 10
    /\ gas_call = NoGasCall

NoCall ==
    [op |-> "none", ty_args |-> <<>>, args |-> <<>>, pre |-> <<>>,
     outcome |-> "none", cost |-> 0, ret |-> <<>>, minted |-> <<>>,
     panic_at |-> "none", events |-> <<>>, gas_budget |-> 0]

Init ==
    /\ points = <<>>
    /\ last = NoCall
    /\ minted = <<>>
    /\ gas_params \in GasTables
    /\ debug_assertions \in BOOLEAN
    /\ passed = <<>>
    /\ written = FALSE
    /\ AlgebraIdle
    /\ NoTest

\* The interpreter is between two native calls.  A panic ends the session: it
\* never gets back to the interpreter.
Running == last.outcome = "none"

\* The call returns (or panics) with result r.
Complete(op, ty_args, args, gas_budget, r) ==
    /\ Len(r.points) <= MaxPoints
    /\ points' = r.points
    /\ last' = [op |-> op, ty_args |-> ty_args, args |-> args, pre |-> points,
                outcome |-> r.outcome, cost |-> r.cost, ret |-> r.ret,
                minted |-> r.minted, panic_at |-> r.panic_at,
                events |-> r.events, gas_budget |-> gas_budget]
    /\ minted' = minted \o r.minted
    /\ UNCHANGED <<gas_params, debug_assertions, passed, written, algebra_vars, failpoint_vars>>

\* The interpreter takes the result of the call (the cost and the values, or
\* the error) and goes on; the store stays with the session.
ResumeCaller ==
    /\ last.outcome \in {"ok", "error"}
    /\ last' = NoCall
    /\ UNCHANGED <<points, minted, gas_params, debug_assertions, passed, written,
                   algebra_vars, failpoint_vars>>

\* The calls the interpreter may make: with the declared arity ("ok"), with a
\* type argument too many ("ty"), an argument too few ("short") or too many
\* ("long").  The calls of a wrong arity are enumerated for one choice of the
\* argument values (Plain).
TyArgsOf(shape) == IF shape = "ty" THEN <<"T">> ELSE <<>>

ArgsOf(shape, full) ==
    IF shape = "short" THEN SubSeq(full, 2, Len(full))
    ELSE IF shape = "long" THEN Append(full, 0)
    ELSE full

Plain(shape, first_choice) == shape = "ok" \/ first_choice

CallPointIdentity ==
    /\ Running
    /\ \E shape \in {"ok", "ty", "long"} :
          LET ty == TyArgsOf(shape)
              args == ArgsOf(shape, <<>>)
          IN Complete("point_identity", ty, args, 0,
                      native_point_identity(gas_params, points, ty, args))

CallPointMul ==
    /\ Running
    /\ \E h \in Handles, s \in Scalars, in_place \in BOOLEAN,
          shape \in {"ok", "ty", "short"} :
          /\ Plain(shape, h = 0 /\ s = 0 /\ ~in_place)
          /\ LET ty == TyArgsOf(shape)
                 args == ArgsOf(shape, <<h, s, in_place>>)
             IN Complete("point_mul", ty, args, 0,
                         native_point_mul(gas_params, points, ty, args))

CallPointNeg ==
    /\ Running
    /\ \E h \in Handles, in_place \in BOOLEAN, shape \in {"ok", "ty", "short"} :
          /\ Plain(shape, h = 0 /\ ~in_place)
          /\ LET ty == TyArgsOf(shape)
                 args == ArgsOf(shape, <<h, in_place>>)
             IN Complete("point_neg", ty, args, 0,
                         native_point_neg(gas_params, points, ty, args))

CallPointAdd ==
    /\ Running
    /\ \E a \in Handles, b \in Handles, in_place \in BOOLEAN,
          shape \in {"ok", "ty", "short"} :
          /\ Plain(shape, a = 0 /\ b = 0 /\ ~in_place)
          /\ LET ty == TyArgsOf(shape)
                 args == ArgsOf(shape, <<a, b, in_place>>)
             IN Complete("point_add", ty, args, 0,
                         native_point_add(gas_params, debug_assertions, points, ty, args))

CallPointSub ==
    /\ Running
    /\ \E a \in Handles, b \in Handles, in_place \in BOOLEAN,
          shape \in {"ok", "ty", "short"} :
          /\ Plain(shape, a = 0 /\ b = 0 /\ ~in_place)
          /\ LET ty == TyArgsOf(shape)
                 args == ArgsOf(shape, <<a, b, in_place>>)
             IN Complete("point_sub", ty, args, 0,
                         native_point_sub(gas_params, debug_assertions, points, ty, args))

CallBasepointMul ==
    /\ Running
    /\ \E a \in Scalars, shape \in {"ok", "ty", "short"} :
          /\ Plain(shape, a = 0)
          /\ LET ty == TyArgsOf(shape)
                 args == ArgsOf(shape, <<a>>)
             IN Complete("basepoint_mul", ty, args, 0,
                         native_basepoint_mul(gas_params, points, ty, args))

\* Byte strings given to the natives that take bytes: the encodings of the
\* points, two strings of COMPRESSED_LEN bytes that encode no point, and
\* strings of other lengths.
ByteInputs ==
    { PointCompress(p) : p \in Points }
    \cup { [i \in 1 .. COMPRESSED_LEN |-> IF i = 1 THEN GroupOrder ELSE 0],
           [i \in 1 .. COMPRESSED_LEN |-> IF i = COMPRESSED_LEN THEN 1 ELSE 0],
           [i \in 1 .. (COMPRESSED_LEN - 1) |-> 0],
           <<>>, <<1>>, <<1, 1>> }
    \cup { [i \in 1 .. UNIFORM_LEN |-> IF i = 1 THEN b ELSE 0] : b \in {0, 1} }

CallPointIsCanonical ==
    /\ Running
    /\ \E bytes \in ByteInputs, shape \in {"ok", "ty", "short"} :
          /\ Plain(shape, bytes = <<>>)
          /\ LET ty == TyArgsOf(shape)
                 args == ArgsOf(shape, <<bytes>>)
             IN Complete("point_is_canonical", ty, args, 0,
                         native_point_is_canonical(gas_params, points, ty, args))

CallPointDecompress ==
    /\ Running
    /\ \E bytes \in ByteInputs, shape \in {"ok", "ty", "short"} :
          /\ Plain(shape, bytes = <<>>)
          /\ LET ty == TyArgsOf(shape)
                 args == ArgsOf(shape, <<bytes>>)
             IN Complete("point_decompress", ty, args, 0,
                         native_point_decompress(gas_params, points, ty, args))

CallPointCompress ==
    /\ Running
    /\ \E h \in Handles, shape \in {"ok", "ty", "short"} :
          /\ Plain(shape, h = 0)
          /\ LET ty == TyArgsOf(shape)
                 args == ArgsOf(shape, <<h>>)
             IN Complete("point_compress", ty, args, 0,
                         native_point_compress(gas_params, points, ty, args))

CallPointEquals ==
    /\ Running
    /\ \E a \in Handles, b \in Handles, shape \in {"ok", "ty", "short"} :
          /\ Plain(shape, a = 0 /\ b = 0)
          /\ LET ty == TyArgsOf(shape)
                 args == ArgsOf(shape, <<a, b>>)
             IN Complete("point_equals", ty, args, 0,
                         native_point_equals(gas_params, points, ty, args))

CallBasepointDoubleMul ==
    /\ Running
    /\ \E a \in {1, 2}, A \in Handles, b \in {0, 1}, shape \in {"ok", "ty", "short"} :
          /\ Plain(shape, a = 1 /\ A = 0 /\ b = 0)
          /\ LET ty == TyArgsOf(shape)
                 args == ArgsOf(shape, <<a, A, b>>)
             IN Complete("basepoint_double_mul", ty, args, 0,
                         native_basepoint_double_mul(gas_params, points, ty, args))

CallNewPointFromSha512 ==
    /\ Running
    /\ \E bytes \in ByteInputs, shape \in {"ok", "ty", "short"} :
          /\ Plain(shape, bytes = <<>>)
          /\ LET ty == TyArgsOf(shape)
                 args == ArgsOf(shape, <<bytes>>)
             IN Complete("new_point_from_sha512", ty, args, 0,
                         native_new_point_from_sha512(gas_params, points, ty, args))

CallNewPointFrom64UniformBytes ==
    /\ Running
    /\ \E bytes \in ByteInputs, shape \in {"ok", "ty", "short"} :
          /\ Plain(shape, bytes = <<>>)
          /\ LET ty == TyArgsOf(shape)
                 args == ArgsOf(shape, <<bytes>>)
             IN Complete("new_point_from_64_uniform_bytes", ty, args, 0,
                         native_new_point_from_64_uniform_bytes(
                             gas_params, points, ty, args))

\* Vector arguments of the multi-scalar multiplication, as <points, scalars>.
\* An element is the handle 0 with the scalar 1 or the handle 1 with the
\* scalar 2.  The vectors enumerated are those of at most MaxVecLen elements,
\* each also with the last point missing, and the uniform vectors of the
\* lengths 8, 190 and 1000.
MsmElements == {<<0, 1>>, <<1, 2>>}

LongLengths == {8, 190, 1000}

UniformInput(n) == <<[i \in 1 .. n |-> 0], [i \in 1 .. n |-> 1]>>

MsmInputs ==
    LET zipped == UNION { [1 .. k -> MsmElements] : k \in 0 .. MaxVecLen }
        pv(z) == [i \in 1 .. Len(z) |-> z[i][1]]
        sv(z) == [i \in 1 .. Len(z) |-> z[i][2]]
    IN { <<pv(z), sv(z)>> : z \in zipped }
       \cup { <<SubSeq(pv(z), 1, Len(z) - 1), sv(z)>> : z \in zipped \ {<<>>} }
       \cup { UniformInput(n) : n \in LongLengths }

\* The gas budgets a call may be given: one that covers only the smallest
\* multiplication and one that covers those of up to a few hundred elements.
GasBudgets == {12, 3000}

CallSafeMultiScalarMul ==
    /\ Running
    /\ \E in \in MsmInputs, gas_budget \in GasBudgets,
          shape \in {"ok", "ty", "short"} :
          /\ Plain(shape, in = <<<<0>>, <<1>>>> /\ gas_budget = 12)
          /\ LET ty == IF shape = "ty" THEN <<"Scalar">>
                       ELSE <<"RistrettoPoint", "Scalar">>
                 args == ArgsOf(shape, in)
             IN Complete("safe_multi_scalar_mul", ty, args, gas_budget,
                         safe_native_multi_scalar_mul_no_floating_point(
                             gas_params, gas_budget, points, ty, args))

\* The retired native is called with the vectors of at most 8 elements.
CallMultiScalarMul ==
    /\ Running
    /\ \E in \in { x \in MsmInputs : Len(x[2]) <= 8 }, shape \in {"ok", "ty", "short"} :
          /\ Plain(shape, in = <<<<0>>, <<1>>>>)
          /\ LET ty == IF shape = "ty" THEN <<"Scalar">>
                       ELSE <<"RistrettoPoint", "Scalar">>
                 args == ArgsOf(shape, in)
             IN Complete("multi_scalar_mul", ty, args, 0,
                         native_multi_scalar_mul(gas_params, points, ty, args))

Next ==
    \/ CallPointIdentity
    \/ CallPointIsCanonical
    \/ CallPointDecompress
    \/ CallPointCompress
    \/ CallPointEquals
    \/ CallBasepointDoubleMul
    \/ CallNewPointFromSha512
    \/ CallNewPointFrom64UniformBytes
    \/ CallMultiScalarMul
    \/ CallPointMul
    \/ CallPointNeg
    \/ CallPointAdd
    \/ CallPointSub
    \/ CallBasepointMul
    \/ CallSafeMultiScalarMul
    \/ ResumeCaller

Spec == Init /\ [][Next]_vars

(***************************************************************************)
(* The PointStore by itself: its methods called one at a time on the       *)
(* store of a session, a mutable reference being written through as soon   *)
(* as it is obtained.                                                      *)
(***************************************************************************)
StoreInit ==
    /\ points = <<>>
    /\ last = NoCall
    /\ minted = <<>>
    /\ gas_params = CHOOSE t \in GasTables : t.point_identity = 1
    /\ debug_assertions = FALSE
    /\ passed = <<>>
    /\ written = FALSE
    /\ AlgebraIdle
    /\ NoTest

StoreReturn(op, args, outcome, ret, new_points) ==
    /\ Len(new_points) <= MaxPoints
    /\ points' = new_points
    /\ last' = [op |-> op, ty_args |-> <<>>, args |-> args, pre |-> points,
                outcome |-> outcome, cost |-> 0, ret |-> ret, minted |-> <<>>,
                panic_at |-> IF outcome = "panic" THEN op ELSE "none",
                events |-> <<>>, gas_budget |-> 0]
    /\ UNCHANGED <<gas_params, debug_assertions, algebra_vars, failpoint_vars>>

StoreWrote ==
    /\ written' = TRUE
    /\ passed' = <<>>

StoreAddPoint ==
    /\ Running
    /\ \E p \in Points :
          LET r == add_point(points, p)
          IN /\ StoreReturn("add_point", <<p>>, "ok", <<r.id>>, r.points)
             /\ minted' = Append(minted, r.id)
             /\ passed' = IF written THEN passed ELSE Append(passed, p)
             /\ UNCHANGED written

StoreGetPoint ==
    /\ Running
    /\ \E h \in Handles :
          LET g == get_point(points, h)
          IN /\ StoreReturn("get_point", <<h>>, IF g.ok THEN "ok" ELSE "panic",
                            IF g.ok THEN <<g.v>> ELSE <<>>, points)
             /\ UNCHANGED <<minted, passed, written>>

StoreGetPointMut ==
    /\ Running
    /\ \E h \in Handles, p \in Points :
          LET m == get_point_mut(points, h)
          IN /\ IF m.ok
                THEN /\ StoreReturn("get_point_mut", <<h, p>>, "ok", <<m.ref>>,
                                    WriteRef(points, m.ref, p))
                     /\ StoreWrote
                ELSE /\ StoreReturn("get_point_mut", <<h, p>>, "panic", <<>>, points)
                     /\ UNCHANGED <<passed, written>>
             /\ UNCHANGED minted

StoreSetPoint ==
    /\ Running
    /\ \E h \in Handles, p \in Points :
          LET r == set_point(points, h, p)
          IN /\ IF r.ok
                THEN /\ StoreReturn("set_point", <<h, p>>, "ok", <<>>, r.points)
                     /\ StoreWrote
                ELSE /\ StoreReturn("set_point", <<h, p>>, "panic", <<>>, points)
                     /\ UNCHANGED <<passed, written>>
             /\ UNCHANGED minted

\* get_two_muts(a, b), then *first = va and *second = vb.
StoreGetTwoMuts ==
    /\ Running
    /\ \E a \in Handles, b \in Handles, va \in Points, vb \in Points :
          LET t == get_two_muts(points, a, b)
          IN /\ IF t.ok
                THEN /\ StoreReturn("get_two_muts", <<a, b, va, vb>>, "ok",
                                    <<t.fst, t.snd>>,
                                    WriteRef(WriteRef(points, t.fst, va), t.snd, vb))
                     /\ StoreWrote
                ELSE /\ StoreReturn("get_two_muts", <<a, b, va, vb>>, "panic",
                                    <<>>, points)
                     /\ UNCHANGED <<passed, written>>
             /\ UNCHANGED minted

StoreNext ==
    \/ StoreAddPoint
    \/ StoreGetPoint
    \/ StoreGetPointMut
    \/ StoreSetPoint
    \/ StoreGetTwoMuts
    \/ ResumeCaller

StoreSpec == StoreInit /\ [][StoreNext]_vars

(***************************************************************************)
(* The gas algebra by itself: formulas charged through the two cores, the  *)
(* concrete one, which materializes them against its table, and the        *)
(* abstract one, which visits them.                                        *)
(***************************************************************************)
AlgebraInit ==
    /\ points = <<>>
    /\ last = NoCall
    /\ minted = <<>>
    /\ gas_params = CHOOSE t \in GasTables : t.point_identity = 1
    /\ debug_assertions = FALSE
    /\ passed = <<>>
    /\ written = FALSE
    /\ core_gas_params \in SumGasTables
    /\ gas_call = NoGasCall
    /\ NoTest

\* ConcreteGasCore::charge: the amount the formula materializes to.
concrete_charge(gas_core, abstract_amount) ==
    materialize(abstract_amount, gas_core)

\* AbstractGasCore::charge: the calls made on the PrintVisitor.
abstract_charge(abstract_amount) == visit(abstract_amount)

\* No charge is in progress: the last one returned Ok(()) to its caller.
CoreIdle == gas_call.core = "none"

\* The caller takes the Ok(()) of the charge, or the Ok(sum) of native_sum.
GasCoreReturn ==
    /\ ~CoreIdle
    /\ gas_call' = NoGasCall
    /\ UNCHANGED <<core_gas_params, point_vars, failpoint_vars>>

ConcreteCharge ==
    /\ CoreIdle
    /\ \E f \in Formulas :
          gas_call' = [core |-> "concrete", op |-> "charge", formula |-> f,
                       amount |-> concrete_charge(core_gas_params, f),
                       callbacks |-> <<>>, slice |-> <<>>, ret |-> 0]
    /\ UNCHANGED <<core_gas_params, point_vars, failpoint_vars>>

AbstractCharge ==
    /\ CoreIdle
    /\ \E f \in Formulas :
          gas_call' = [core |-> "abstract", op |-> "charge", formula |-> f,
                       amount |-> GasQuantity(0, NoUnit),
                       callbacks |-> abstract_charge(f), slice |-> <<>>, ret |-> 0]
    /\ UNCHANGED <<core_gas_params, point_vars, failpoint_vars>>

\* native_sum with the concrete core: charge, then sum the slice.
NativeSumConcrete ==
    /\ CoreIdle
    /\ \E v \in Slices :
          LET f == native_sum_formula(Len(v))
          IN gas_call' = [core |-> "concrete", op |-> "native_sum", formula |-> f,
                          amount |-> concrete_charge(core_gas_params, f),
                          callbacks |-> <<>>, slice |-> v,
                          ret |-> IterSum(v, Len(v))]
    /\ UNCHANGED <<core_gas_params, point_vars, failpoint_vars>>

\* native_sum with the abstract core.
NativeSumAbstract ==
    /\ CoreIdle
    /\ \E v \in Slices :
          LET f == native_sum_formula(Len(v))
          IN gas_call' = [core |-> "abstract", op |-> "native_sum", formula |-> f,
                          amount |-> GasQuantity(0, NoUnit),
                          callbacks |-> abstract_charge(f), slice |-> v,
                          ret |-> IterSum(v, Len(v))]
    /\ UNCHANGED <<core_gas_params, point_vars, failpoint_vars>>

AlgebraNext ==
    \/ ConcreteCharge
    \/ AbstractCharge
    \/ NativeSumConcrete
    \/ NativeSumAbstract
    \/ GasCoreReturn

AlgebraSpec == AlgebraInit /\ [][AlgebraNext]_vars

(***************************************************************************)
(* log2_floor by itself, called on the small integers, on every power of   *)
(* two, on every number one below a power of two and on usize::MAX.        *)
(***************************************************************************)
MaxSmallUsize == 40

UsizeInputs ==
    { UsizeOf(n) : n \in 0 .. MaxSmallUsize }
    \cup { [i \in UsizeDigits |-> IF i = k THEN 1 ELSE 0] : k \in UsizeDigits }
    \cup { [i \in UsizeDigits |-> IF i <= k THEN 1 ELSE 0] : k \in UsizeDigits }

CallLog2Floor ==
    /\ Running
    /\ \E n \in UsizeInputs :
          LET r == log2_floor_usize(n)
          IN Complete("log2_floor", <<>>, <<n>>, 0,
                      NativeOk(points, 0, <<r.some, r.v>>, <<>>))

Log2Next ==
    \/ CallLog2Floor
    \/ ResumeCaller

Log2Spec == Init /\ [][Log2Next]_vars

(***************************************************************************)
(* run_fail_point_test as test_changing_working_consensus and              *)
(* test_fault_tolerance_of_network call it                                 *)
(* (testsuite/smoke-test/src/consensus.rs), against validators that serve  *)
(* GET /set_failpoint (api/src/set_failpoints.rs, built with the           *)
(* failpoints feature).  The ledger of the swarm is left out: whether a    *)
(* cycle made progress, and whether the validators end with the same       *)
(* transactions, is for the swarm to decide.                               *)
(***************************************************************************)
num_validators == 7

cycles == 8

parts_in_cycle == 3

\* The cycles and parts test_fault_tolerance_of_network asks for.
fault_tolerance_cycles == 10

fault_tolerance_parts_in_cycle == 5

Tests == {"test_changing_working_consensus", "test_fault_tolerance_of_network"}

\* The parameters cycles and parts_in_cycle of run_fail_point_test.
CyclesOf(t) ==
    IF t = "test_fault_tolerance_of_network" THEN fault_tolerance_cycles
    ELSE cycles

PartsInCycleOf(t) ==
    IF t = "test_fault_tolerance_of_network" THEN fault_tolerance_parts_in_cycle
    ELSE parts_in_cycle

\* The validators small_rng.gen_range(0usize, num_validators) is taken to
\* give in test_fault_tolerance_of_network: those of index at most
\* MaxWantedClient.
MaxWantedClient == 1

WantedClients == { v \in 0 .. (num_validators - 1) : v <= MaxWantedClient }

Validators == 0 .. (num_validators - 1)

FailpointNames == {"consensus::send_any", "consensus::process_any"}

\* A failpoint the registry has no entry for.
Unconfigured == "unconfigured"

\* format!("{}%return", wanted_reliability)
PercentReturn(wanted_reliability) ==
    CASE wanted_reliability = 10 -> "10%return"
      [] wanted_reliability = 20 -> "20%return"
      [] wanted_reliability = 30 -> "30%return"
      [] wanted_reliability = 40 -> "40%return"
      [] wanted_reliability = 50 -> "50%return"
      [] wanted_reliability = 60 -> "60%return"
      [] wanted_reliability = 70 -> "70%return"
      [] wanted_reliability = 80 -> "80%return"
      [] wanted_reliability = 90 -> "90%return"
      [] wanted_reliability = 100 -> "100%return"

\* The actions fail::cfg can parse, of those the tests send.
ParsableActions ==
    {"0%return"} \cup { PercentReturn(10 * k) : k \in 1 .. 10 }

\* The closure test_fault_tolerance_of_network passes as
\* get_fail_points_to_set, with wanted_client the validator the generator
\* gave; rand_reliability is computed and not used.
fault_tolerance_fail_points_to_set(c, q, wanted_client) ==
    LET wanted_reliability == (c + 1) * 10
    IN << << <<wanted_client, "consensus::send_any",
               PercentReturn(wanted_reliability)>> >>,
          FALSE >>

\* The closure test_changing_working_consensus passes as
\* get_fail_points_to_set: <<vector of <<validator, name, actions>>, reset>>.
get_fail_points_to_set(c, q) ==
    IF q = 0
    THEN LET client_1 == (c * 2) % num_validators
             client_2 == (c * 2) % num_validators
         IN <<<< <<client_1, "consensus::send_any", "100%return">>,
                 <<client_1, "consensus::process_any", "100%return">>,
                 <<client_2, "consensus::send_any", "100%return">>,
                 <<client_2, "consensus::process_any", "100%return">> >>,
              TRUE>>
    ELSE << <<>>, FALSE >>

\* handle_set_failpoint on one validator: fail::cfg(name, actions), rejected
\* when the actions do not parse.
handle_set_failpoint(registry, name, actions) ==
    IF actions \in ParsableActions
    THEN [ok |-> TRUE, registry |-> [registry EXCEPT ![name] = actions]]
    ELSE [ok |-> FALSE, registry |-> registry]

\* validator_clients[validator_idx].set_failpoint(name, actions).await.unwrap()
\* followed by the step next_pc; a rejected request panics in unwrap.
set_failpoint(validator_idx, name, actions, next_pc) ==
    LET r == handle_set_failpoint(failpoints[validator_idx], name, actions)
    IN /\ failpoints' = [failpoints EXCEPT ![validator_idx] = r.registry]
       /\ calls' = Append(calls, <<validator_idx, name, actions>>)
       /\ pc' = IF r.ok THEN next_pc ELSE "unwrap"

\* The swarm is up and modified_failpoints is the empty set (line 57).
FailPointInit ==
    /\ points = <<>>
    /\ last = NoCall
    /\ minted = <<>>
    /\ gas_params = CHOOSE t \in GasTables : t.point_identity = 1
    /\ debug_assertions = FALSE
    /\ passed = <<>>
    /\ written = FALSE
    /\ AlgebraIdle
    /\ test \in Tests
    /\ pc = "part"
    /\ cycle = 0
    /\ part = 0
    /\ modified_failpoints = {}
    /\ failpoints = [v \in Validators |-> [n \in FailpointNames |-> Unconfigured]]
    /\ fail_points_to_set = <<>>
    /\ to_reset = {}
    /\ calls = <<>>

\* Line 65: the part begins with the call of the closure.  With the reset
\* flag the loop at 68 takes modified_failpoints over.
GetFailPointsToSet ==
    /\ pc = "part"
    /\ \E wanted_client \in WantedClients :
          LET r == IF test = "test_fault_tolerance_of_network"
                   THEN fault_tolerance_fail_points_to_set(cycle, part, wanted_client)
                   ELSE get_fail_points_to_set(cycle, part)
          IN /\ fail_points_to_set' = r[1]
             /\ IF r[2]
                THEN pc' = "reset" /\ to_reset' = modified_failpoints
                ELSE pc' = "set" /\ to_reset' = {}
    /\ calls' = <<>>
    /\ UNCHANGED <<test, cycle, part, modified_failpoints, failpoints, point_vars,
                   algebra_vars>>

\* Lines 68-76: one turn of the reset loop, in the order the HashSet gives.
ResetOldFailpoint ==
    /\ pc = "reset"
    /\ \E e \in to_reset :
          /\ set_failpoint(e[1], e[2], "0%return", "reset")
          /\ to_reset' = to_reset \ {e}
    /\ UNCHANGED <<test, cycle, part, modified_failpoints, fail_points_to_set,
                   point_vars, algebra_vars>>

KeepModifiedFailpoints ==
    /\ pc = "reset"
    /\ to_reset = {}
    /\ pc' = "set"
    /\ UNCHANGED <<test, cycle, part, modified_failpoints, failpoints,
                   fail_points_to_set, to_reset, calls, point_vars, algebra_vars>>

\* Line 77: the reset loop is over.
ForgetModifiedFailpoints ==
    /\ pc = "reset"
    /\ to_reset = {}
    /\ modified_failpoints' = {}
    /\ pc' = "set"
    /\ UNCHANGED <<test, cycle, part, failpoints, fail_points_to_set, to_reset, calls,
                   point_vars, algebra_vars>>

\* Lines 79-89: one turn of the loop over fail_points_to_set.
SetFailpoint ==
    /\ pc = "set"
    /\ fail_points_to_set # <<>>
    /\ LET f == Head(fail_points_to_set)
       IN /\ set_failpoint(f[1], f[2], f[3], "set")
          /\ modified_failpoints' = modified_failpoints \cup {<<f[1], f[2]>>}
    /\ fail_points_to_set' = Tail(fail_points_to_set)
    /\ UNCHANGED <<test, cycle, part, to_reset, point_vars, algebra_vars>>

\* Lines 91-104: a transfer is submitted to some validator and the test
\* sleeps to the end of the part.
TransferCoins ==
    /\ pc = "set"
    /\ fail_points_to_set = <<>>
    /\ IF part + 1 < PartsInCycleOf(test)
       THEN pc' = "part" /\ part' = part + 1
       ELSE pc' = "check_cycle" /\ part' = part
    /\ UNCHANGED <<test, cycle, modified_failpoints, failpoints, fail_points_to_set,
                   to_reset, calls, point_vars, algebra_vars>>

\* Lines 107-118.  With the closure at 219-222 the cycle passes if versions
\* and rounds advanced by more than 2, and the assert panics if not; the
\* closure at 189 passes every cycle.  After the last cycle the loop at 121
\* takes modified_failpoints over.
CheckCycle ==
    /\ pc = "check_cycle"
    /\ \E progress \in BOOLEAN :
          IF ~progress /\ test = "test_changing_working_consensus"
          THEN pc' = "assert_progress" /\ UNCHANGED <<cycle, part, to_reset>>
          ELSE /\ cycle' = cycle + 1
               /\ part' = 0
               /\ IF cycle + 1 < CyclesOf(test)
                  THEN pc' = "part" /\ to_reset' = to_reset
                  ELSE pc' = "final_reset" /\ to_reset' = modified_failpoints
    /\ UNCHANGED <<test, modified_failpoints, failpoints, fail_points_to_set, calls,
                   point_vars, algebra_vars>>

\* Lines 121-128: one turn of the last reset loop.
FinalResetFailpoint ==
    /\ pc = "final_reset"
    /\ \E e \in to_reset :
          /\ set_failpoint(e[1], e[2], "0%return", "final_reset")
          /\ to_reset' = to_reset \ {e}
    /\ UNCHANGED <<test, cycle, part, modified_failpoints, fail_points_to_set,
                   point_vars, algebra_vars>>

\* FinalChecks as it would be if the function returned after the comparison
\* of the transactions.
FinalChecksThenReturn ==
    /\ pc = "final_reset"
    /\ to_reset = {}
    /\ \E same_transactions \in BOOLEAN :
          pc' = IF same_transactions THEN "returned" ELSE "assert_eq"
    /\ UNCHANGED <<test, cycle, part, modified_failpoints, failpoints,
                   fail_points_to_set, to_reset, calls, point_vars, algebra_vars>>

\* Lines 130-172: the last transfer, the comparison of the validators'
\* transactions (assert_eq!) and assert!(false).
FinalChecks ==
    /\ pc = "final_reset"
    /\ to_reset = {}
    /\ \E same_transactions \in BOOLEAN :
          pc' = IF same_transactions THEN "assert_false" ELSE "assert_eq"
    /\ UNCHANGED <<test, cycle, part, modified_failpoints, failpoints,
                   fail_points_to_set, to_reset, calls, point_vars, algebra_vars>>

FailPointNext ==
    \/ GetFailPointsToSet
    \/ ResetOldFailpoint
    \/ ForgetModifiedFailpoints
    \/ SetFailpoint
    \/ TransferCoins
    \/ CheckCycle
    \/ FinalResetFailpoint
    \/ FinalChecks

FailPointSpec == FailPointInit /\ [][FailPointNext]_vars

(***************************************************************************)
(* Properties.                                                             *)
(***************************************************************************)
IsPrefix(s, t) == Len(s) <= Len(t) /\ \A i \in 1 .. Len(s) : s[i] = t[i]

\* Every occurrence of y in ev has an occurrence of x before it.
Precedes(ev, x, y) ==
    \A j \in 1 .. Len(ev) : ev[j] = y => \E i \in 1 .. (j - 1) : ev[i] = x

IsMsm == last.op = "safe_multi_scalar_mul"

MsmArityOk == Len(last.ty_args) = 2 /\ Len(last.args) = 2

\* The declared length n: the length of the scalars vector.
MsmNum == Len(last.args[2])

MsmSteps ==
    <<"arity", "pop", "len", "charge", "parse_scalars", "parse_points",
      "multiply", "add_point">>

IsMsmStep(e) == \E i \in 1 .. Len(MsmSteps) : MsmSteps[i] = e

\* C1: in the safe multi-scalar multiplication the charge is issued before an
\* element of either vector is read, before the multiplication and before the
\* store is borrowed or modified; the steps of every call are an initial part
\* of: arity checks, pops, read n, charge, parse scalars, parse points,
\* multiply, add_point, and a call that returns a handle took them all.
C1_ChargeBeforeWork ==
    IsMsm =>
       /\ IsPrefix(SelectSeq(last.events, IsMsmStep), MsmSteps)
       /\ \A y \in {"parse_scalars", "borrow", "parse_points", "multiply",
                    "borrow_mut", "add_point"} :
             Precedes(last.events, "charge", y)
       /\ (points # last.pre => \E i \in 1 .. Len(last.events) : last.events[i] = "charge")
       /\ (last.outcome = "ok" => SelectSeq(last.events, IsMsmStep) = MsmSteps)

C1_Witness ==
    /\ IsMsm
    /\ last.outcome = "ok"
    /\ MsmNum = 2
    /\ points # last.pre

\* The integer k with 2^k <= x < 2^(k+1), for 1 <= x < 2^21.
FloorLog2(x) == CHOOSE k \in 0 .. 20 : 2 ^ k <= x /\ x < 2 ^ (k + 1)

\* C2: for every declared length n >= 1 the amount the safe multi-scalar
\* multiplication charges is
\* point_parse_arg * n + scalar_parse_arg * n + point_mul * (n div floor(log2(n + 1))),
\* the sum and the products being those of the gas quantities.
C2_ChargedAmount ==
    (IsMsm /\ MsmArityOk /\ MsmNum >= 1) =>
       /\ \E i \in 1 .. Len(last.events) : last.events[i] = "charge"
       /\ last.cost =
             GasAdd(GasAdd(GasMul(gas_params.point_parse_arg, MsmNum),
                           GasMul(gas_params.scalar_parse_arg, MsmNum)),
                    GasMul(gas_params.point_mul, MsmNum \div FloorLog2(MsmNum + 1)))

C2_Witness ==
    /\ IsMsm
    /\ MsmArityOk
    /\ MsmNum = 8
    /\ last.outcome = "ok"

\* C3: for n in {1, 2, 8, 190, 1000} and every other n >= 1 the divisor
\* floor(log2(n + 1)) of the cost formula is at least 1, so that the call never
\* divides by zero, and the amount charged is the same whenever the native is
\* called again with vectors of that length under the same gas parameters: on
\* the store the call left, with either budget and with uniform vectors.
C3_DeterministicCost ==
    (IsMsm /\ MsmArityOk /\ MsmNum >= 1) =>
       /\ log2_floor(MsmNum + 1).some
       /\ log2_floor(MsmNum + 1).v >= 1
       /\ last.panic_at \notin {"divide_by_zero", "unwrap"}
       /\ \A gas_budget \in GasBudgets :
             LET again == safe_native_multi_scalar_mul_no_floating_point(
                              gas_params, gas_budget, points, last.ty_args,
                              UniformInput(MsmNum))
             IN /\ again.panic_at \notin {"divide_by_zero", "unwrap"}
                /\ again.cost = last.cost

C3_Witness ==
    /\ IsMsm
    /\ MsmArityOk
    /\ MsmNum = 1
    /\ last.outcome = "ok"

\* C4: from the empty store, after n calls of add_point and no write the store
\* holds exactly n points, the k-th call (k = 0 .. n-1) returned the handle k,
\* and get_point of every handle minted returns the point given to the
\* add_point call that returned it.
C4_HandleMonotonicity ==
    ~written =>
       /\ Len(points) = Len(passed)
       /\ Len(minted) = Len(passed)
       /\ \A k \in 1 .. Len(passed) :
             /\ minted[k] = k - 1
             /\ get_point(points, minted[k]).ok
             /\ get_point(points, minted[k]).v = passed[k]
       /\ (last.op = "get_point" /\ last.args[1] < Len(passed)) =>
             /\ last.outcome = "ok"
             /\ last.ret = <<passed[last.args[1] + 1]>>

C4_Witness ==
    /\ ~written
    /\ Len(passed) = 3
    /\ passed[1] # passed[2]
    /\ last.op = "get_point"
    /\ last.outcome = "ok"
    /\ last.args = <<1>>

\* C5: over any sequence of native calls the store is append-only: a call
\* changes its length by 0 or by +1, no entry is removed, an entry changes only
\* as the operand a successful in-place call returns, an allocating call
\* returns the length the store had before the call, and that handle was never
\* returned by an earlier allocating call.
C5_AppendOnly ==
    [][ /\ Len(points') \in {Len(points), Len(points) + 1}
        /\ \A i \in 1 .. Len(points) :
              points'[i] # points[i] =>
                 /\ last'.outcome = "ok"
                 /\ last'.minted = <<>>
                 /\ last'.ret = <<i - 1>>
        /\ (Len(points') = Len(points) + 1) <=> (last'.minted # <<>>)
        /\ last'.minted # <<>> =>
              /\ last'.outcome = "ok"
              /\ last'.minted = <<Len(points)>>
              /\ last'.ret[1] = Len(points)
              /\ \A k \in 1 .. Len(minted) : minted[k] # Len(points)
      ]_vars

C5_Witness ==
    /\ Len(points) = 3
    /\ minted = <<0, 1, 2>>
    /\ last.op = "point_add"
    /\ last.minted = <<2>>
    /\ last.pre[1] = last.pre[2]

\* C6: for two distinct handles a and b in range, a < b or a > b,
\* get_two_muts(a, b) returns the reference to the entry a first and the
\* reference to the entry b second; what is written through the first is read
\* by get_point(a), what is written through the second by get_point(b), and
\* every other entry is as it was.
C6_TwoMutsOrder ==
    (/\ last.op = "get_two_muts"
     /\ last.args[1] # last.args[2]
     /\ last.args[1] < Len(last.pre)
     /\ last.args[2] < Len(last.pre)) =>
       /\ last.outcome = "ok"
       /\ last.ret = <<last.args[1], last.args[2]>>
       /\ get_point(points, last.args[1]) = [ok |-> TRUE, v |-> last.args[3]]
       /\ get_point(points, last.args[2]) = [ok |-> TRUE, v |-> last.args[4]]
       /\ Len(points) = Len(last.pre)
       /\ \A i \in 1 .. Len(points) :
             (i # last.args[1] + 1 /\ i # last.args[2] + 1) => points[i] = last.pre[i]

C6_Witness ==
    /\ last.op = "get_two_muts"
    /\ last.outcome = "ok"
    /\ last.args[1] > last.args[2]
    /\ last.args[3] # last.args[4]
    /\ Len(points) = 3
    /\ \A i \in 1 .. 3 : last.pre[i] # points[i] <=> i # 2

\* C7: get_two_muts(a, a) panics for every handle a, in range or not, and no
\* entry of the store is modified.
C7_EqualHandlesPanic ==
    (last.op = "get_two_muts" /\ last.args[1] = last.args[2]) =>
       /\ last.outcome = "panic"
       /\ points = last.pre

C7_Witness ==
    /\ last.op = "get_two_muts"
    /\ last.args[1] = last.args[2]
    /\ last.args[1] < Len(last.pre)
    /\ last.outcome = "panic"

FlaggedOps == {"point_add", "point_sub", "point_neg", "point_mul"}

\* A flagged operator returned a handle.  Its arguments are kept in the order
\* of the declaration: the first operand first, the in_place flag last.
IsFlagged == last.op \in FlaggedOps /\ last.outcome = "ok"

InPlaceFlag == last.args[Len(last.args)]

FirstOperand == last.args[1]

\* C8: a flagged operator (add, sub, negate, scalar-multiply) called with
\* in_place = false leaves every entry of the store as it was, appends one
\* point and returns its handle, the previous length; called with
\* in_place = true it leaves the length and every entry but the first
\* operand's as they were and returns the first operand's handle.
C8_FrameEffect ==
    IsFlagged =>
       IF ~InPlaceFlag
       THEN /\ Len(points) = Len(last.pre) + 1
            /\ \A i \in 1 .. Len(last.pre) : points[i] = last.pre[i]
            /\ last.ret = <<Len(last.pre)>>
       ELSE /\ Len(points) = Len(last.pre)
            /\ \A i \in 1 .. Len(last.pre) :
                  i # FirstOperand + 1 => points[i] = last.pre[i]
            /\ last.ret = <<FirstOperand>>

C8_Witness ==
    /\ last.op = "point_sub"
    /\ last.outcome = "ok"
    /\ last.args = <<2, 0, TRUE>>
    /\ Len(points) = 3
    /\ points[3] # last.pre[3]

\* The call of last made again on the store it found, in the other mode.
OtherMode ==
    LET args == [last.args EXCEPT ![Len(last.args)] = ~InPlaceFlag]
    IN CASE last.op = "point_add" ->
              native_point_add(gas_params, debug_assertions, last.pre, last.ty_args, args)
         [] last.op = "point_sub" ->
              native_point_sub(gas_params, debug_assertions, last.pre, last.ty_args, args)
         [] last.op = "point_neg" ->
              native_point_neg(gas_params, last.pre, last.ty_args, args)
         [] last.op = "point_mul" ->
              native_point_mul(gas_params, last.pre, last.ty_args, args)

\* C9: for every flagged operator and all valid operands the point at the
\* handle the call returns with in_place = false equals the point at the first
\* operand's handle after the call with in_place = true on the same store, and
\* both modes report the same cost.
C9_InPlaceParity ==
    (IsFlagged /\ OtherMode.outcome = "ok") =>
       LET mine == [points |-> points, ret |-> last.ret, cost |-> last.cost]
           fresh == IF InPlaceFlag THEN OtherMode ELSE mine
           inplace == IF InPlaceFlag THEN mine ELSE OtherMode
       IN /\ get_point(fresh.points, fresh.ret[1]).ok
          /\ get_point(fresh.points, fresh.ret[1]).v
                = get_point(inplace.points, FirstOperand).v
          /\ fresh.cost = inplace.cost

C9_Witness ==
    /\ last.op = "point_sub"
    /\ last.outcome = "ok"
    /\ InPlaceFlag
    /\ OtherMode.outcome = "ok"
    /\ last.pre[last.args[1] + 1] # last.pre[last.args[2] + 1]
    /\ last.pre[last.args[2] + 1] # PointIdentity

\* C10: with h0 holding the identity point and h1 a point P, the in-place
\* addition h0 += h1 makes get_point(h0) equal to P, leaves get_point(h1) equal
\* to P and leaves the number of points in the store as it was.
C10_IdentityPlusP ==
    (/\ last.op = "point_add"
     /\ last.outcome = "ok"
     /\ InPlaceFlag
     /\ last.pre[last.args[1] + 1] = PointIdentity) =>
       /\ get_point(points, last.args[1])
             = [ok |-> TRUE, v |-> last.pre[last.args[2] + 1]]
       /\ get_point(points, last.args[2])
             = [ok |-> TRUE, v |-> last.pre[last.args[2] + 1]]
       /\ Len(points) = Len(last.pre)

C10_Witness ==
    /\ last.op = "point_add"
    /\ last.outcome = "ok"
    /\ last.args = <<0, 1, TRUE>>
    /\ minted = <<0, 1>>
    /\ last.pre[1] = PointIdentity
    /\ last.pre[2] # PointIdentity
    /\ Len(points) = 2

\* The byte string encodes a point: it has COMPRESSED_LEN bytes and is the
\* encoding of some point of the group.
EncodesPoint(bytes) ==
    /\ Len(bytes) = COMPRESSED_LEN
    /\ \E p \in Points : bytes = PointCompress(p)

IsDecompress ==
    last.op = "point_decompress" /\ Len(last.ty_args) = 0 /\ Len(last.args) = 1

\* C11: native_point_decompress given a byte string that is not 32 bytes long,
\* or 32 bytes that encode no point, returns a successful result carrying
\* u64::MAX and false and leaves the store as it was; given the encoding of a
\* point it appends that point and returns its handle and true.
C11_DecompressSentinel ==
    IsDecompress =>
       /\ last.outcome = "ok"
       /\ IF EncodesPoint(last.args[1])
          THEN /\ last.ret = <<Len(last.pre), TRUE>>
               /\ Len(points) = Len(last.pre) + 1
               /\ SubSeq(points, 1, Len(last.pre)) = last.pre
               /\ PointCompress(points[Len(points)]) = last.args[1]
          ELSE /\ last.ret = <<U64_MAX, FALSE>>
               /\ points = last.pre
               /\ last.minted = <<>>

C11_Witness ==
    /\ IsDecompress
    /\ Len(last.args[1]) = COMPRESSED_LEN
    /\ ~EncodesPoint(last.args[1])
    /\ last.ret = <<U64_MAX, FALSE>>
    /\ Len(points) = 2

\* The charge of the last call failed: the amount exceeds the budget.
ChargeFailed ==
    /\ IsMsm
    /\ MsmArityOk
    /\ msm_cost(gas_params, MsmNum).status = "ok"
    /\ msm_cost(gas_params, MsmNum).amount > last.gas_budget

\* C12: when the charge of the safe multi-scalar multiplication fails for lack
\* of budget the call returns an error, returns no handle and leaves the store
\* as it was, and the session goes on to its next native call.
C12_OutOfGasLeavesStore ==
    ChargeFailed =>
       /\ last.outcome = "error"
       /\ last.ret = <<>>
       /\ last.minted = <<>>
       /\ points = last.pre
       /\ last.events[Len(last.events)] = "charge"
       /\ ENABLED ResumeCaller

C12_Witness ==
    /\ ChargeFailed
    /\ last.outcome = "error"
    /\ MsmNum = 2
    /\ Len(last.args[1]) = 2
    /\ Len(points) = 2

\* The round trip of the point at handle h of the store pts: compress, then
\* decompress the bytes, then compare the new handle with h.
RoundTrip(pts, h) ==
    LET c == native_point_compress(gas_params, pts, <<>>, <<h>>)
        d == native_point_decompress(gas_params, c.points, <<>>, c.ret)
        e == native_point_equals(gas_params, d.points, <<>>, <<h, d.ret[1]>>)
        k == native_point_is_canonical(gas_params, d.points, <<>>, c.ret)
    IN [compress |-> c, decompress |-> d, equals |-> e, is_canonical |-> k]

\* C18: for every point held in the store, the bytes native_point_compress
\* returns for it are 32 bytes that native_point_decompress accepts (flag
\* true), the point at the new handle is equal to the original under
\* native_point_equals, and native_point_is_canonical of the bytes is true.
C18_CompressRoundTrip ==
    (last.op = "point_compress" /\ last.outcome = "ok") =>
       LET h == last.args[1]
           rt == RoundTrip(last.pre, h)
       IN /\ rt.compress.ret = last.ret
          /\ Len(last.ret[1]) = COMPRESSED_LEN
          /\ rt.decompress.outcome = "ok"
          /\ rt.decompress.ret = <<Len(last.pre), TRUE>>
          /\ rt.equals.outcome = "ok"
          /\ rt.equals.ret = <<TRUE>>
          /\ get_point(rt.decompress.points, rt.decompress.ret[1])
                = get_point(last.pre, h)
          /\ rt.is_canonical.ret = <<TRUE>>

C18_Witness ==
    /\ last.op = "point_compress"
    /\ last.outcome = "ok"
    /\ last.args = <<1>>
    /\ last.pre[2] # PointIdentity
    /\ last.pre[1] # last.pre[2]

ReadOnlyOps == {"point_is_canonical", "point_compress", "point_equals"}

\* C19: native_point_is_canonical, native_point_compress and
\* native_point_equals leave the store as it was, whether they return or
\* panic, mint no handle, and return a boolean (is_canonical, equals) or the
\* 32 bytes of the encoding (compress).
C19_ReadOnlyNatives ==
    last.op \in ReadOnlyOps =>
       /\ points = last.pre
       /\ last.minted = <<>>
       /\ last.outcome = "ok" =>
             /\ Len(last.ret) = 1
             /\ IF last.op = "point_compress"
                THEN Len(last.ret[1]) = COMPRESSED_LEN
                ELSE last.ret[1] \in BOOLEAN

C19_Witness ==
    /\ last.op = "point_equals"
    /\ last.outcome = "ok"
    /\ last.ret = <<FALSE>>
    /\ Len(points) = 2

SingleHandleOps == {"get_point", "get_point_mut", "set_point"}

\* What C20 says of the methods that take one handle, and of get_two_muts
\* when a handle is out of range.
OutOfRangePanics ==
    /\ last.op \in SingleHandleOps =>
          /\ last.outcome = "panic" <=> last.args[1] >= Len(last.pre)
          /\ last.outcome = "ok" <=> last.args[1] < Len(last.pre)
          /\ last.outcome = "panic" => (points = last.pre /\ last.ret = <<>>)
    /\ (/\ last.op = "get_two_muts"
        /\ (last.args[1] >= Len(last.pre) \/ last.args[2] >= Len(last.pre))) =>
          /\ last.outcome = "panic"
          /\ points = last.pre
          /\ last.ret = <<>>

\* C20: get_point, get_point_mut and set_point with a handle >= the length of
\* the store, and get_two_muts with either handle >= the length, panic and
\* leave the store as it was; with every handle < the length get_point,
\* get_point_mut and set_point do not fail, and get_two_muts does not fail
\* when its two handles are distinct.
C20_OutOfRangePanics ==
    /\ OutOfRangePanics
    /\ (/\ last.op = "get_two_muts"
        /\ last.args[1] < Len(last.pre)
        /\ last.args[2] < Len(last.pre)
        /\ last.args[1] # last.args[2]) => last.outcome = "ok"

C20_Witness ==
    /\ last.op = "get_two_muts"
    /\ last.args[1] < Len(last.pre)
    /\ last.args[2] >= Len(last.pre)
    /\ last.outcome = "panic"
    /\ Len(points) = 2

\* C20 as stated: with every handle < the length none of the four methods
\* fails.
C20_AsStated ==
    /\ OutOfRangePanics
    /\ (/\ last.op = "get_two_muts"
        /\ last.args[1] < Len(last.pre)
        /\ last.args[2] < Len(last.pre)) => last.outcome = "ok"

IsLegacyMsm == last.op = "multi_scalar_mul"

\* C17: no multi-scalar multiplication entry point divides by zero when it
\* computes its cost: for every declared length n >= 1 the divisor of the
\* cost is not zero and the cost reported is not the quotient of a division
\* by zero (an infinity, which the cast to u64 turns into u64::MAX).
C17_NoDivisionByZero ==
    /\ (IsMsm /\ MsmArityOk /\ MsmNum >= 1) =>
          /\ log2_floor(MsmNum + 1).some
          /\ log2_floor(MsmNum + 1).v # 0
          /\ last.cost < U64_MAX
    /\ (IsLegacyMsm /\ MsmArityOk /\ MsmNum >= 1 /\ last.outcome = "ok") =>
          /\ ~f64_log2_is_zero(MsmNum)
          /\ last.cost < U64_MAX

ConcreteCharged == gas_call.core = "concrete"

AbstractCharged == gas_call.core = "abstract"

\* C13: for formulas f and g of one unit and every table, materializing
\* f + g gives the sum of what f and g materialize to; materializing f * g
\* gives the product of what f and g materialize to; a literal quantity
\* materializes to itself.  Sums, products and equality are those of
\* quantities: the value and the unit.
C13_MaterializeHomomorphism ==
    ConcreteCharged =>
       LET f == gas_call.formula
           T == core_gas_params
       IN /\ f.kind = "add" =>
                /\ UnitOf(f.left) = UnitOf(f.right)
                /\ gas_call.amount.unit = UnitOf(f.left)
                /\ gas_call.amount.val
                      = GasAdd(materialize(f.left, T).val, materialize(f.right, T).val)
          /\ f.kind = "mul" =>
                /\ gas_call.amount.unit = UnitMul(UnitOf(f.left), UnitOf(f.right))
                /\ gas_call.amount.val
                      = GasMul(materialize(f.left, T).val, materialize(f.right, T).val)
          /\ f.kind = "quantity" =>
                gas_call.amount = [val |-> f.val, unit |-> f.unit]

C13_Witness ==
    /\ ConcreteCharged
    /\ gas_call.op = "charge"
    /\ gas_call.formula.kind = "mul"
    /\ gas_call.formula.right.kind = "add"
    /\ gas_call.amount.val = 12
    /\ core_gas_params.per_element = 3

\* C14: with base = 10 and per_element = 1 the formula
\* base + per_element * count(3) materializes to 13, and native_sum on a slice
\* of k elements charges, through the concrete core, base + per_element * k
\* (the sum and the product of gas quantities) for every table and every k.
C14_NativeSumCharge ==
    /\ (ConcreteCharged /\ gas_call.op = "native_sum") =>
          /\ gas_call.amount.unit = InternalGasUnit
          /\ gas_call.amount.val
                = GasAdd(core_gas_params.base,
                         GasMul(core_gas_params.per_element, Len(gas_call.slice)))
    /\ (/\ ConcreteCharged
        /\ core_gas_params = [base |-> 10, per_element |-> 1]
        /\ gas_call.formula
              = AbstractGasAdd(GetGasParam("SUM_BASE"),
                               AbstractGasMul(GetGasParam("SUM_PER_ELEMENT"),
                                              Literal(3, Arg)))) =>
          gas_call.amount = [val |-> 13, unit |-> InternalGasUnit]

C14_Witness ==
    /\ ConcreteCharged
    /\ gas_call.op = "native_sum"
    /\ core_gas_params = [base |-> 10, per_element |-> 1]
    /\ gas_call.slice = <<1, 2, 3>>
    /\ gas_call.amount.val = 13
    /\ gas_call.ret = 6

RECURSIVE NodeCount(_)
NodeCount(f) ==
    IF f.kind \in {"add", "mul"} THEN NodeCount(f.left) + NodeCount(f.right) + 1
    ELSE 1

\* The callback of the node itself.
OwnCallback(f) ==
    CASE f.kind = "add" -> OnAdd
      [] f.kind = "mul" -> OnMul
      [] f.kind = "gas_param" -> OnGasParam(f.p)
      [] f.kind = "quantity" -> OnQuantity(f.val, f.unit)

\* C15: visit makes one callback per node, in post-order: for an Add or Mul
\* node the callbacks of the left subtree come first, then those of the right
\* subtree, then the node's own add or mul; for the formula of native_sum the
\* callbacks are gas_param(SUM_BASE), gas_param(SUM_PER_ELEMENT),
\* quantity(len), mul, add.
C15_VisitPostOrder ==
    AbstractCharged =>
       LET f == gas_call.formula
           cbs == gas_call.callbacks
       IN /\ Len(cbs) = NodeCount(f)
          /\ cbs[Len(cbs)] = OwnCallback(f)
          /\ f.kind \in {"add", "mul"} =>
                /\ SubSeq(cbs, 1, NodeCount(f.left)) = visit(f.left)
                /\ SubSeq(cbs, NodeCount(f.left) + 1, Len(cbs) - 1) = visit(f.right)
                /\ visit(f.left)[NodeCount(f.left)] = OwnCallback(f.left)
                /\ visit(f.right)[NodeCount(f.right)] = OwnCallback(f.right)
          /\ gas_call.op = "native_sum" =>
                cbs = <<OnGasParam("SUM_BASE"), OnGasParam("SUM_PER_ELEMENT"),
                        OnQuantity(Len(gas_call.slice), Arg), OnMul, OnAdd>>

C15_Witness ==
    /\ AbstractCharged
    /\ gas_call.op = "native_sum"
    /\ Len(gas_call.slice) = 3
    /\ Len(gas_call.callbacks) = 5

RECURSIVE EvalPostfix(_, _, _, _)
\* The callbacks from the i-th on, run on a stack: a parameter pushes its
\* value in the table, a quantity pushes itself, add and mul replace the two
\* topmost values by their sum or product.
EvalPostfix(cbs, i, stack, T) ==
    IF i > Len(cbs) THEN stack
    ELSE LET c == cbs[i]
             n == Len(stack)
         IN CASE c.cb = "gas_param" ->
                    EvalPostfix(cbs, i + 1,
                                Append(stack,
                                       IF c.p = "SUM_BASE"
                                       THEN GasQuantity(T.base, InternalGasUnit)
                                       ELSE GasQuantity(T.per_element, InternalGasPerArg)),
                                T)
              [] c.cb = "quantity" ->
                    EvalPostfix(cbs, i + 1, Append(stack, GasQuantity(c.val, c.unit)), T)
              [] c.cb = "add" ->
                    EvalPostfix(cbs, i + 1,
                                Append(SubSeq(stack, 1, n - 2),
                                       QuantityAdd(stack[n - 1], stack[n])), T)
              [] c.cb = "mul" ->
                    EvalPostfix(cbs, i + 1,
                                Append(SubSeq(stack, 1, n - 2),
                                       QuantityMul(stack[n - 1], stack[n])), T)

\* C16: the callbacks visit makes for a formula, evaluated as a postfix
\* expression over a table, give what materialize gives for the formula and
\* that table: the same value and the same unit, for every table.
C16_InterpretersAgree ==
    AbstractCharged =>
       \A T \in SumGasTables :
          EvalPostfix(gas_call.callbacks, 1, <<>>, T)
             = <<materialize(gas_call.formula, T)>>

C16_Witness ==
    /\ AbstractCharged
    /\ gas_call.op = "charge"
    /\ gas_call.formula.kind = "mul"
    /\ gas_call.formula.left.kind = "add"
    /\ gas_call.formula.left.left.kind = "quantity"
    /\ EvalPostfix(gas_call.callbacks, 1, <<>>, core_gas_params)
          = <<GasQuantity(9, InternalGasUnit)>>

\* The counts each native asserts on entry: <<type arguments, arguments>>.
DeclaredCounts(op) ==
    CASE op = "point_identity" -> <<0, 0>>
      [] op \in {"point_is_canonical", "point_decompress", "point_compress",
                 "basepoint_mul", "new_point_from_sha512",
                 "new_point_from_64_uniform_bytes"} -> <<0, 1>>
      [] op \in {"point_equals", "point_neg"} -> <<0, 2>>
      [] op \in {"point_mul", "point_add", "point_sub",
                 "basepoint_double_mul"} -> <<0, 3>>
      [] op \in {"multi_scalar_mul", "safe_multi_scalar_mul"} -> <<2, 2>>

NativeOps ==
    {"point_identity", "point_is_canonical", "point_decompress",
     "point_compress", "basepoint_mul", "new_point_from_sha512",
     "new_point_from_64_uniform_bytes", "point_equals", "point_neg",
     "point_mul", "point_add", "point_sub", "basepoint_double_mul",
     "multi_scalar_mul", "safe_multi_scalar_mul"}

WrongCounts ==
    /\ last.op \in NativeOps
    /\ <<Len(last.ty_args), Len(last.args)>> # DeclaredCounts(last.op)

\* C21: a native called with a wrong number of type arguments or of arguments
\* ends at its count check: the retired and the plain natives panic in
\* assert_eq!, the safe native returns an error; in both cases no step of the
\* call has run (no argument popped, no borrow of the store taken), the cost
\* is zero, nothing is minted and the store is what it was before the call.
C21_CountsCheckedFirst ==
    WrongCounts =>
       /\ IF last.op = "safe_multi_scalar_mul"
          THEN last.outcome = "error" /\ last.events = <<"arity">>
          ELSE /\ last.outcome = "panic"
               /\ last.panic_at = "assert_eq"
               /\ last.events = <<>>
       /\ last.cost = 0
       /\ last.minted = <<>>
       /\ last.ret = <<>>
       /\ points = last.pre

\* point_add is called with two arguments on a store that holds points.
C21_Witness ==
    /\ last.op = "point_add"
    /\ Len(last.args) = 2
    /\ last.outcome = "panic"
    /\ Len(last.pre) >= 1

\* The point a call that returned a handle left at that handle.
ResultPoint == points[last.ret[1] + 1]

\* The points the handles of a vector named in the store before the call.
PointsAt(pts, handles) == [i \in 1 .. Len(handles) |-> pts[handles[i] + 1]]

\* C22: the arguments bind from the back of the queue.  add and sub, declared
\* (a, b, in_place), take the flag from the last position, b from the second
\* and a from the first: sub leaves a - b (not b - a), add leaves a + b, and
\* with in_place set it is a's entry that holds the result while b's is as it
\* was.  basepoint_double_mul, declared (a, A, b), leaves a * A + b * B.  Both
\* multi-scalar multiplications take the scalars from the last position and
\* the points from the first: the declared length is that of the scalars and
\* the result is the sum of scalars[i] * points[i].
C22_ArgumentsBindFromTheBack ==
    (last.outcome = "ok" /\ ~WrongCounts) =>
       /\ last.op \in {"point_add", "point_sub"} =>
             LET a == last.args[1]
                 b == last.args[2]
                 in_place == last.args[3]
                 expected == IF last.op = "point_sub"
                             THEN PointSub(last.pre[a + 1], last.pre[b + 1])
                             ELSE PointAdd(last.pre[a + 1], last.pre[b + 1])
             IN /\ in_place \in BOOLEAN
                /\ ResultPoint = expected
                /\ in_place => /\ last.ret = <<a>>
                               /\ points[b + 1] = last.pre[b + 1]
                /\ ~in_place => last.ret = <<Len(last.pre)>>
       /\ last.op = "basepoint_double_mul" =>
             LET a == last.args[1]
                 A == last.args[2]
                 b == last.args[3]
             IN ResultPoint = PointAdd(PointMul(last.pre[A + 1], a),
                                       PointMul(RISTRETTO_BASEPOINT, b))
       /\ last.op \in {"multi_scalar_mul", "safe_multi_scalar_mul"} =>
             LET points_ref == last.args[1]
                 scalars_ref == last.args[2]
             IN /\ Len(points_ref) >= Len(scalars_ref)
                /\ ResultPoint =
                      MsmSum(scalars_ref,
                             PointsAt(last.pre, SubSeq(points_ref, 1, Len(scalars_ref))),
                             1, Len(scalars_ref))

\* basepoint_double_mul with a # b and a point A that is not the identity: the
\* result tells a * A + b * B from b * A + a * B.
C22_Witness ==
    /\ last.op = "basepoint_double_mul"
    /\ last.outcome = "ok"
    /\ last.args[1] = 2
    /\ last.args[3] = 1
    /\ last.pre[last.args[2] + 1] = 2

PureConstructors ==
    {"point_identity", "new_point_from_sha512", "new_point_from_64_uniform_bytes"}

\* C23: a pure constructor that returns takes no handle (identity takes
\* nothing, the other two take bytes), leaves every entry of the store as it
\* was, appends one point that is determined by its argument alone and
\* returns the handle of that point.  identity and from-64-uniform-bytes
\* report their own parameter, from-sha512 on L bytes reports
\* point_from_64_uniform_bytes + sha512_per_hash + sha512_per_byte * L.
C23_PureConstructors ==
    (last.op \in PureConstructors /\ last.outcome = "ok") =>
       /\ Len(points) = Len(last.pre) + 1
       /\ SubSeq(points, 1, Len(last.pre)) = last.pre
       /\ last.ret = <<Len(last.pre)>>
       /\ last.minted = last.ret
       /\ CASE last.op = "point_identity" ->
                 /\ last.args = <<>>
                 /\ ResultPoint = PointIdentity
                 /\ last.cost = gas_params.point_identity
            [] last.op = "new_point_from_64_uniform_bytes" ->
                 /\ Len(last.args) = 1
                 /\ Len(last.args[1]) = UNIFORM_LEN
                 /\ ResultPoint = FromUniformBytes(last.args[1])
                 /\ last.cost = gas_params.point_from_64_uniform_bytes
            [] last.op = "new_point_from_sha512" ->
                 /\ Len(last.args) = 1
                 /\ ResultPoint = HashFromBytes(last.args[1])
                 /\ last.cost = gas_params.point_from_64_uniform_bytes
                                  + gas_params.sha512_per_hash
                                  + gas_params.sha512_per_byte * Len(last.args[1])

\* from-sha512 of 32 bytes on a store that already holds a point.
C23_Witness ==
    /\ last.op = "new_point_from_sha512"
    /\ last.outcome = "ok"
    /\ Len(last.args[1]) = COMPRESSED_LEN
    /\ Len(last.pre) >= 1

\* C24: log2_floor(0) is None; for n > 0 it is Some(k) with digit k of n set
\* and no digit above it, that is 2^k <= n < 2^(k+1); log2_floor(1) is Some(0)
\* and log2_floor(usize::MAX) is Some(usize::BITS - 1).  On the integers of
\* the model the natives' log2_floor gives the same answers.
C24_Log2Floor ==
    last.op = "log2_floor" =>
       LET n == last.args[1]
           some == last.ret[1]
           k == last.ret[2]
       IN /\ (n = USIZE_MIN) = ~some
          /\ some => /\ k \in UsizeDigits
                     /\ n[k] = 1
                     /\ \A j \in UsizeDigits : j > k => n[j] = 0
          /\ \A m \in 0 .. MaxSmallUsize :
                n = UsizeOf(m) =>
                   /\ log2_floor(m) = [some |-> some, v |-> k]
                   /\ m = 0 => ~some
                   /\ m > 0 => some /\ 2 ^ k <= m /\ m < 2 ^ (k + 1)
                   /\ m = 1 => k = 0
          /\ n = USIZE_MAX => some /\ k = USIZE_BITS - 1

C24_Witness ==
    /\ last.op = "log2_floor"
    /\ last.args[1] = USIZE_MAX
    /\ last.ret = <<TRUE, 63>>

\* add or sub was called with the declared counts and the same handle twice.
CoincidingOperands ==
    /\ last.op \in {"point_add", "point_sub"}
    /\ ~WrongCounts
    /\ last.args[1] = last.args[2]

\* C25: add and sub called in place with a_handle = b_handle end in a panic,
\* that of debug_assert! in a build with debug assertions and that of
\* get_two_muts in a build without, and leave the store as it was; called
\* with in_place = false on the same pair, a handle of the store, they return
\* and append one point (a + a, or a - a) after the untouched entries.
C25_CoincidingHandles ==
    CoincidingOperands =>
       IF InPlaceFlag
       THEN /\ last.outcome = "panic"
            /\ last.panic_at = IF debug_assertions THEN "debug_assert"
                                ELSE "get_two_muts"
            /\ points = last.pre
            /\ last.minted = <<>>
       ELSE last.args[1] < Len(last.pre) =>
               LET p == last.pre[last.args[1] + 1]
               IN /\ last.outcome = "ok"
                  /\ SubSeq(points, 1, Len(last.pre)) = last.pre
                  /\ Len(points) = Len(last.pre) + 1
                  /\ last.ret = <<Len(last.pre)>>
                  /\ ResultPoint = IF last.op = "point_add" THEN PointAdd(p, p)
                                   ELSE PointSub(p, p)

\* In a build without debug assertions, sub in place of a point that is not
\* the identity from itself.
C25_Witness ==
    /\ CoincidingOperands
    /\ last.op = "point_sub"
    /\ InPlaceFlag
    /\ ~debug_assertions
    /\ last.args[1] < Len(last.pre)
    /\ last.pre[last.args[1] + 1] # PointIdentity
    /\ last.outcome = "panic"

\* is_canonical or decompress was called with the declared counts.
TookBytesToDecompress ==
    /\ last.op \in {"point_is_canonical", "point_decompress"}
    /\ ~WrongCounts

\* C27: native_point_is_canonical and native_point_decompress return with
\* the cost point_decompress when they are given COMPRESSED_LEN (32) bytes,
\* whether the bytes encode a point or not, and with the cost zero when they
\* are given any other number of bytes.
C27_DecompressionCost ==
    TookBytesToDecompress =>
       /\ last.outcome = "ok"
       /\ last.cost = IF Len(last.args[1]) = COMPRESSED_LEN
                      THEN gas_params.point_decompress
                      ELSE 0

\* 32 bytes that encode no point are charged for.
C27_Witness ==
    /\ TookBytesToDecompress
    /\ Len(last.args[1]) = COMPRESSED_LEN
    /\ ~EncodesPoint(last.args[1])
    /\ last.cost = gas_params.point_decompress
    /\ last.cost > 0

\* native_point_decompress returned the pair that reports a failure.
ReturnedSentinel ==
    /\ last.op = "point_decompress"
    /\ last.outcome = "ok"
    /\ last.ret[2] = FALSE

\* C29: every handle minted so far is below the length of the store, which is
\* below u64::MAX, so that no minted handle is u64::MAX; the handle in the
\* pair a failed decompression returns is u64::MAX, names no entry of the
\* store and is none of the minted handles.
C29_SentinelIsNoHandle ==
    /\ Len(points) < U64_MAX
    /\ \A i \in 1 .. Len(minted) : minted[i] < Len(points) /\ minted[i] # U64_MAX
    /\ ReturnedSentinel =>
          /\ last.ret[1] = U64_MAX
          /\ ~get_point(points, last.ret[1]).ok
          /\ \A i \in 1 .. Len(minted) : minted[i] # last.ret[1]

\* A decompression fails in a session that has minted handles.
C29_Witness ==
    /\ ReturnedSentinel
    /\ Len(minted) >= 2
    /\ last.pre = points

\* The safe multi-scalar multiplication was called with the declared counts
\* and an empty vector of scalars.
MsmOfNothing == IsMsm /\ MsmArityOk /\ MsmNum = 0

\* C30: the safe multi-scalar multiplication called with n = 0 panics on the
\* division by log2_floor(0 + 1) = Some(0) while the argument of charge is
\* evaluated: the call has checked the counts, popped its arguments and taken
\* the length and nothing else, no gas is charged, no store borrow is taken and
\* the store is what it was.
C30_EmptyMsmDividesByZero ==
    MsmOfNothing =>
       /\ log2_floor(MsmNum + 1) = [some |-> TRUE, v |-> 0]
       /\ last.outcome = "panic"
       /\ last.panic_at = "divide_by_zero"
       /\ last.events = <<"arity", "pop", "len">>
       /\ last.cost = 0
       /\ last.minted = <<>>
       /\ points = last.pre

\* The call is made on a store that holds points.
C30_Witness ==
    /\ MsmOfNothing
    /\ last.outcome = "panic"
    /\ Len(points) >= 1

\* The position of the first step e of the last call, 0 if there is none.
FirstStep(e) ==
    IF \E i \in 1 .. Len(last.events) : last.events[i] = e
    THEN CHOOSE i \in 1 .. Len(last.events) :
            /\ last.events[i] = e
            /\ \A j \in 1 .. (i - 1) : last.events[j] # e
    ELSE 0

\* C28: a native that finds the store cell not borrowed, as it is when the
\* session begins, takes no borrow while it holds one, meets no
\* already-borrowed panic and leaves the cell not borrowed however it ends
\* (value, error or panic), so the next native finds the cell not borrowed
\* too.  When the safe multi-scalar multiplication takes its exclusive borrow
\* the shared borrow it parsed the points under has been released.
C28_BorrowsDoNotOverlap ==
    last.op \in NativeOps =>
       LET cell == RefCellRun(RefCellUnused, last.events, 1)
       IN /\ ~cell.panicked
          /\ ~cell.nested
          /\ cell.flag = 0
          /\ (IsMsm /\ FirstStep("borrow_mut") > 0) =>
                /\ FirstStep("borrow") > 0
                /\ FirstStep("borrow") < FirstStep("release")
                /\ FirstStep("release") < FirstStep("borrow_mut")

\* The safe multi-scalar multiplication took both of its borrows.
C28_Witness ==
    /\ IsMsm
    /\ last.outcome = "ok"
    /\ FirstStep("borrow") > 0
    /\ FirstStep("borrow_mut") > FirstStep("borrow")
    /\ MsmNum = 2

\* The validators whose two consensus failpoints are both set to 100%return.
DownValidators ==
    { v \in Validators :
        \A n \in FailpointNames : failpoints[v][n] = "100%return" }

\* Part 0 of a cycle has made its set_failpoint requests.
PartZeroIsSet ==
    /\ test = "test_changing_working_consensus"
    /\ pc = "set"
    /\ part = 0
    /\ fail_points_to_set = <<>>

\* C26: in test_changing_working_consensus, once part 0 of a cycle has made
\* its requests, consensus::send_any and consensus::process_any are set to
\* 100%return on two different validators of the seven and on no other.
C26_TwoValidatorsDown ==
    PartZeroIsSet => Cardinality(DownValidators) = 2

\* The (validator, name) pairs whose failpoint is configured to something
\* other than 0%return: those configured and not reset since.
ActivePairs ==
    { vn \in Validators \X FailpointNames :
        failpoints[vn[1]][vn[2]] \notin {Unconfigured, "0%return"} }

\* The final checks (lines 130-172) are running or have run.
AtFinalChecks ==
    \/ pc = "final_reset" /\ to_reset = {}
    \/ pc \in {"assert_eq", "assert_false"}

\* The requests of this part that reset a failpoint come before all others.
ResetsComeFirst ==
    \A i \in 1 .. Len(calls), j \in 1 .. Len(calls) :
       (calls[i][3] = "0%return" /\ calls[j][3] # "0%return") => i < j

\* C31: in run_fail_point_test, outside the reset loops modified_failpoints
\* is the set of pairs configured since the last reset; inside a reset loop
\* the pairs still to be reset are those still configured; when a reset loop
\* of a part is over every pair has been set to 0%return and
\* modified_failpoints is empty before the part's first new failpoint is
\* applied; and when the final checks run every failpoint that was ever
\* configured is at 0%return.
C31_ModifiedFailpoints ==
    pc # "none" =>
       /\ pc \in {"part", "set", "check_cycle", "assert_progress"} =>
             modified_failpoints = ActivePairs
       /\ pc \in {"reset", "final_reset"} => to_reset = ActivePairs
       /\ (pc = "set" /\ \E i \in 1 .. Len(calls) : calls[i][3] = "0%return") =>
             /\ ResetsComeFirst
             /\ \A vn \in ActivePairs :
                   \E i \in 1 .. Len(calls) :
                      calls[i][1] = vn[1] /\ calls[i][2] = vn[2]
                         /\ calls[i][3] # "0%return"
       /\ AtFinalChecks =>
             /\ ActivePairs = {}
             /\ \A v \in Validators, n \in FailpointNames :
                   failpoints[v][n] \in {Unconfigured, "0%return"}

\* The final checks of test_fault_tolerance_of_network run after failpoints
\* of two validators were configured and reset.
C31_Witness ==
    /\ test = "test_fault_tolerance_of_network"
    /\ pc = "final_reset"
    /\ to_reset = {}
    /\ Len(calls) >= 2
    /\ Cardinality(modified_failpoints) >= 2
    /\ ActivePairs = {}

\* The positions at which run_fail_point_test stops with a panic: a failed
\* unwrap of set_failpoint, a failed assert! of check_cycle, the failed
\* assert_eq! of line 159, and assert!(false) of line 172.
PanicPositions == {"unwrap", "assert_progress", "assert_eq", "assert_false"}

Finished == pc # "none" /\ ~ENABLED FailPointNext

\* C32: every execution of run_fail_point_test ends in a panic, and one that
\* passed check_cycle in every cycle and the comparison of the validators'
\* transactions has run all its cycles and ends at assert!(false); neither
\* test ends without an assertion failure.
C32_EndsInAssertionFailure ==
    Finished =>
       /\ pc \in PanicPositions
       /\ pc \notin {"unwrap", "assert_progress", "assert_eq"} =>
             /\ pc = "assert_false"
             /\ cycle = CyclesOf(test)
             /\ to_reset = {}

C32_Witness ==
    /\ test = "test_fault_tolerance_of_network"
    /\ Finished
    /\ pc = "assert_false"
    /\ cycle = fault_tolerance_cycles
    /\ Len(calls) >= 2

====
